---- MODULE Spec2Model ----
(***************************************************************************)
(* A model of microservice-commons: the database connection manager's      *)
(* retry loop, the migrations and the database health checker, the Gin     *)
(* middleware chain (request ID, authentication, recovery, health), the    *)
(* responses package (error helpers, pagination), the configuration, and   *)
(* the server with its graceful shutdown.                                  *)
(***************************************************************************)
EXTENDS Integers, Sequences, FiniteSets, TLC

\* ------------------------------------------------------------------------
\* Bounds of the model
\* ------------------------------------------------------------------------

\* DB_MAX_RETRIES is drawn from -1 .. MaxEnvRetries (and "unset").
MaxEnvRetries == 4

\* The ghost event log of one Connect call never needs more than one attempt
\* and one sleep per configured retry.
MaxLog == 2 * MaxEnvRetries + 2

\* Paginated, CreatePaginationMeta and CalculateTotalPages are called with
\* total in 0 .. MaxTotal (and around 2^53), pageSize in 1 .. MaxPageSizeArg
\* and page in -1 .. MaxPageArg.
MaxTotal == 12
MaxPageSizeArg == 5
MaxPageArg == 6

\* The query parameters page and page_size hold the numbers -2 .. MaxQueryInt
\* (and some other strings).
MaxQueryInt == 101

\* An http.Server serves up to MaxInflight requests at a time.
MaxInflight == 2

\* A migrator holds up to MaxModels models, and a service runs up to
\* MaxMigrations migrations.
MaxModels == 2
MaxMigrations == 2

VARIABLES
    \* ---- database.ConnectionManager.Connect ----
    env,          \* the process environment: DB_MAX_RETRIES, DB_RETRY_DELAY_SECONDS
    cPc,          \* position of the caller inside Connect
    maxRetries,   \* local maxRetries
    retryDelay,   \* local retryDelay, in seconds
    attempt,      \* loop variable
    cmDb,         \* cm.db
    cRet,         \* the (db, err) pair Connect returned
    events,       \* ghost: the pgconnect.New calls and time.Sleep calls made
    \* ---- one HTTP request served by a gin engine ----
    hPc,          \* "idle", "serving" (inside the handler chain), "panicking"
                  \* (a panic unwinds the chain) or "crashed" (it left ServeHTTP)
    engine,       \* what router.Use / router.GET installed
    gc,           \* the request's *gin.Context, response writer included
    ran,          \* ghost: the handlers of the chain that were executed
    panicked,     \* the panic raised while the request was served, if any
    \* ---- responses: pagination ----
    pgCall,       \* the last call of a pagination function and its arguments
    pgOut,        \* what that call returned (or sent)
    \* ---- config and server ----
    osEnv,        \* the environment variables the configuration is loaded from
    srvCall,      \* the last call of the config or server package, with arguments
    srv,          \* what NewServer returned, or the panic it raised
    srvResp,      \* the answer of the server's router to the last request, or
                  \* the configuration the last call returned
    \* ---- server lifecycle: Start, Stop, signals ----
    lifeCall,     \* the method of Server the main goroutine is in, if any
    sm,           \* the server's ShutdownManager
    mainPc,       \* position of the main goroutine inside that method
    servePc,      \* position of the goroutine that runs ListenAndServe
    quit,         \* the channel of WaitForShutdown, and whether signal.Notify
                  \* has registered it
    httpServer,   \* the http.Server: its state and the requests in flight
    proc,         \* the process: "running", "exited" (os.Exit) or "killed"
    shutdownLog,  \* ghost: the signal read from quit, the calls of
                  \* http.Server.Shutdown, and what the method returned
    \* ---- database: migrations ----
    dbCall,       \* the last call of the migration functions
    migrator,     \* the *Migrator the service holds, if any
    migrations,   \* the number of migrations run so far
    dbLog,        \* ghost: the operations issued to the database, in order
    dbOut,        \* the error the last migration returned
    \* ---- database: HealthChecker.Check ----
    hc,           \* the *HealthChecker: its database handle and its timeout
    hcPc,         \* position of the caller inside Check
    done,         \* the channel done of performCheck
    ctxDone,      \* whether the context of the check has expired
    checkLog      \* ghost: what Ping and the query did, and what Check returned

connVars == <<env, cPc, maxRetries, retryDelay, attempt, cmDb, cRet, events>>
httpVars == <<hPc, engine, gc, ran, panicked>>
pageVars == <<pgCall, pgOut>>
cfgVars == <<osEnv, srvCall, srv, srvResp>>
lifeVars == <<lifeCall, sm, mainPc, servePc, quit, httpServer, proc, shutdownLog>>
migVars == <<dbCall, migrator, migrations, dbLog, dbOut>>
checkVars == <<hc, hcPc, done, ctxDone, checkLog>>
dbVars == <<migVars, checkVars>>
srvVars == <<cfgVars, lifeVars, dbVars>>

vars == <<connVars, httpVars, pageVars, srvVars>>

\* ------------------------------------------------------------------------
\* utils.GetEnvInt
\* ------------------------------------------------------------------------

\* An environment variable holding an integer, or not set at all.
Unset == [set |-> FALSE, val |-> 0]
EnvInt(n) == [set |-> TRUE, val |-> n]

\* The value of an integer environment variable: the variable's value when it
\* is set, the fallback when it is not.
GetEnvInt(value, fallback) == IF value.set THEN value.val ELSE fallback

\* ------------------------------------------------------------------------
\* database.ConnectionManager.Connect
\* ------------------------------------------------------------------------

DefaultMaxRetries == 3
DefaultRetryDelaySeconds == 30

\* What the environment may hold for DB_MAX_RETRIES and DB_RETRY_DELAY_SECONDS.
EnvMaxRetriesValues == {Unset} \cup {EnvInt(n) : n \in -1 .. MaxEnvRetries}
EnvRetryDelayValues == {Unset} \cup {EnvInt(n) : n \in {0, 1, 60}}

\* A *pgconnect.DB: nil, or the connection a successful pgconnect.New returned.
NilDB == [conn |-> 0]
NoError == "nil"

\* The connection the k-th pgconnect.New call returns when it succeeds.
Conn(k) == [conn |-> k]

Log(e) == IF Len(events) < MaxLog THEN Append(events, e) ELSE events

AttemptEvent(k, ok) == [kind |-> "attempt", n |-> k, ok |-> ok, dur |-> 0]
SleepEvent(d) == [kind |-> "sleep", n |-> 0, ok |-> FALSE, dur |-> d]

\* for attempt := 1; attempt <= maxRetries; attempt++
LoopCondOffByOne(a, n) == a < n
LoopCond(a, n) == a <= n

\* if attempt < maxRetries { time.Sleep(retryDelay) }
ShouldSleepAlways(a, n) == a <= n
ShouldSleep(a, n) == a < n

\* time.Sleep(retryDelay)
SleepDurationBackoff(d, a) == d * a
SleepDuration(d, a) == d

\* attempt++
NextAttemptStuck(a) == a
NextAttempt(a) == a + 1

ConnInit ==
    /\ env = [retries |-> Unset, delay |-> Unset]
    /\ cPc = "idle"
    /\ maxRetries = 0
    /\ retryDelay = 0
    /\ attempt = 0
    /\ cmDb = NilDB
    /\ cRet = [db |-> NilDB, err |-> NoError]
    /\ events = <<>>

\* Connect is called (on a fresh manager, or again as Reconnect does): the
\* retry configuration is read from the environment and the loop is entered.
ConnectCall ==
    /\ cPc \in {"idle", "returned"}
    /\ \E er \in EnvMaxRetriesValues, ed \in EnvRetryDelayValues :
        /\ env' = [retries |-> er, delay |-> ed]
        /\ maxRetries' = GetEnvInt(er, DefaultMaxRetries)
        /\ retryDelay' = GetEnvInt(ed, DefaultRetryDelaySeconds)
    /\ attempt' = 1
    /\ cPc' = "loop"
    /\ events' = <<>>
    /\ cRet' = [db |-> NilDB, err |-> NoError]
    /\ UNCHANGED cmDb
    /\ UNCHANGED <<httpVars, pageVars, srvVars>>

\* pgconnect.New succeeds: Connect returns the connection.
AttemptSucceeds ==
    /\ cPc = "loop"
    /\ LoopCond(attempt, maxRetries)
    /\ events' = Log(AttemptEvent(attempt, TRUE))
    /\ cmDb' = Conn(attempt)
    /\ cRet' = [db |-> Conn(attempt), err |-> NoError]
    /\ cPc' = "returned"
    /\ UNCHANGED <<env, maxRetries, retryDelay, attempt>>
    /\ UNCHANGED <<httpVars, pageVars, srvVars>>

\* pgconnect.New fails: cm.db is the nil it returned; sleep if another attempt
\* follows.
AttemptFails ==
    /\ cPc = "loop"
    /\ LoopCond(attempt, maxRetries)
    /\ events' = Log(AttemptEvent(attempt, FALSE))
    /\ cmDb' = NilDB
    /\ IF ShouldSleep(attempt, maxRetries)
         THEN /\ cPc' = "sleep"
              /\ UNCHANGED attempt
         ELSE /\ cPc' = "loop"
              /\ attempt' = NextAttempt(attempt)
    /\ UNCHANGED <<env, maxRetries, retryDelay, cRet>>
    /\ UNCHANGED <<httpVars, pageVars, srvVars>>

\* time.Sleep(retryDelay) returns; the loop goes on to the next attempt.
SleepDone ==
    /\ cPc = "sleep"
    /\ events' = Log(SleepEvent(SleepDuration(retryDelay, attempt)))
    /\ attempt' = NextAttempt(attempt)
    /\ cPc' = "loop"
    /\ UNCHANGED <<env, maxRetries, retryDelay, cmDb, cRet>>
    /\ UNCHANGED <<httpVars, pageVars, srvVars>>

\* The loop ends without a connection: return nil and the wrapped error.
ReturnError ==
    /\ cPc = "loop"
    /\ ~LoopCond(attempt, maxRetries)
    /\ cRet' = [db |-> NilDB, err |-> "failed to connect to database"]
    /\ cPc' = "returned"
    /\ UNCHANGED <<env, maxRetries, retryDelay, attempt, cmDb, events>>
    /\ UNCHANGED <<httpVars, pageVars, srvVars>>


\* ------------------------------------------------------------------------
\* Go's int, int64 and float64. A natural number is the sequence of its
\* digits in base 2^LimbBits, least significant first, without leading
\* zeros; an int is a sign and a magnitude.
\* ------------------------------------------------------------------------

\* int and int64 are 64 bits wide; a float64 has 53 significant bits.
IntBits == 64
Float64Precision == 53

LimbBits == IntBits \div 4
Base == 2 ^ LimbBits
IntLimbs == IntBits \div LimbBits
\* Digits kept behind the point while a float64 quotient is formed: enough
\* to round the quotient of any int64 by a divisor below 2^(LimbBits - 1).
FracLimbs == 2 * IntLimbs

RECURSIVE Norm(_)
Norm(b) == IF b = <<>> \/ b[Len(b)] # 0 THEN b ELSE Norm(SubSeq(b, 1, Len(b) - 1))

RECURSIVE FromNat(_)
FromNat(n) == IF n = 0 THEN <<>> ELSE <<n % Base>> \o FromNat(n \div Base)

RECURSIVE ToNat(_)
ToNat(b) == IF b = <<>> THEN 0 ELSE b[1] + Base * ToNat(Tail(b))

Zeros(k) == [i \in 1 .. k |-> 0]

\* b * m + carry, for m and carry below 2^(LimbBits - 1)
RECURSIVE MulAdd(_, _, _)
MulAdd(b, m, carry) ==
    IF b = <<>> THEN FromNat(carry)
    ELSE <<(b[1] * m + carry) % Base>> \o
         MulAdd(Tail(b), m, (b[1] * m + carry) \div Base)

Times(b, m) == Norm(MulAdd(b, m, 0))
Plus(b, k) == Norm(MulAdd(b, 1, k))

\* b - 1, for b > 0
RECURSIVE Borrow(_)
Borrow(b) ==
    IF b[1] > 0 THEN <<b[1] - 1>> \o Tail(b) ELSE <<Base - 1>> \o Borrow(Tail(b))
Minus1(b) == Norm(Borrow(b))

\* quotient and remainder of b by d, 0 < d < 2^(LimbBits - 1)
RECURSIVE DivRem(_, _)
DivRem(b, d) ==
    IF b = <<>> THEN [q |-> <<>>, r |-> 0]
    ELSE LET hi == DivRem(Tail(b), d)
             cur == Base * hi.r + b[1]
         IN  [q |-> <<cur \div d>> \o hi.q, r |-> cur % d]

\* a < b, both without leading zeros
Less(a, b) ==
    \/ Len(a) < Len(b)
    \/ /\ Len(a) = Len(b)
       /\ \E i \in 1 .. Len(a) :
             /\ a[i] < b[i]
             /\ \A j \in (i + 1) .. Len(a) : a[j] = b[j]

Pow2(k) == Zeros(k \div LimbBits) \o <<2 ^ (k % LimbBits)>>

\* The binary digit of weight 2^i, and the number of binary digits.
BitAt(n, i) ==
    IF i \div LimbBits >= Len(n) THEN 0
    ELSE (n[(i \div LimbBits) + 1] \div (2 ^ (i % LimbBits))) % 2
BitLen(n) ==
    IF n = <<>> THEN 0
    ELSE (Len(n) - 1) * LimbBits +
         (CHOOSE k \in 1 .. LimbBits : 2 ^ (k - 1) <= n[Len(n)] /\ n[Len(n)] < 2 ^ k)

\* n with its k lowest binary digits cleared, and n + 2^k
ClearLow(n, k) ==
    [j \in 1 .. Len(n) |->
        IF j * LimbBits <= k THEN 0
        ELSE IF (j - 1) * LimbBits >= k THEN n[j]
        ELSE n[j] - (n[j] % (2 ^ (k - (j - 1) * LimbBits)))]
AddPow2(n, k) ==
    SubSeq(n, 1, k \div LimbBits) \o
    Plus(SubSeq(n, (k \div LimbBits) + 1, Len(n)), 2 ^ (k % LimbBits))

\* An int: sign and magnitude (zero is not negative).
IntOf(n) == [neg |-> n < 0, mag |-> FromNat(IF n < 0 THEN -n ELSE n)]
IntLess(x, y) ==
    IF x.neg /\ ~y.neg THEN TRUE
    ELSE IF ~x.neg /\ y.neg THEN FALSE
    ELSE IF x.neg THEN Less(y.mag, x.mag)
    ELSE Less(x.mag, y.mag)

\* The int that 64-bit two's complement arithmetic leaves of the natural
\* number b: b modulo 2^64, read as a signed number.
Wrap64(b) ==
    LET low == SubSeq(b \o Zeros(IntLimbs), 1, IntLimbs)
    IN  IF low[IntLimbs] < Base \div 2 THEN [neg |-> FALSE, mag |-> Norm(low)]
        ELSE [neg |-> TRUE,
              mag |-> Norm(SubSeq(MulAdd([i \in 1 .. IntLimbs |-> Base - 1 - low[i]],
                                         1, 1),
                                  1, IntLimbs))]

\* The natural number n rounded to Float64Precision significant bits, to
\* nearest and on a tie to even; sticky says that the exact value lies a
\* little above n.
RoundToFloat64(n, sticky) ==
    IF BitLen(n) <= Float64Precision THEN n
    ELSE LET k == BitLen(n) - Float64Precision
             rest == sticky \/ \E i \in 0 .. (k - 2) : BitAt(n, i) = 1
             up == BitAt(n, k - 1) = 1 /\ (rest \/ BitAt(n, k) = 1)
         IN  IF up THEN AddPow2(ClearLow(n, k), k) ELSE Norm(ClearLow(n, k))

\* float64(total), total >= 0: an integer
Float64OfInt(total) == RoundToFloat64(total, FALSE)

\* x / float64(pageSize) for the float64 integer x: the quotient in units of
\* Base^-FracLimbs
Float64Quotient(x, pageSize) ==
    LET dr == DivRem(Zeros(FracLimbs) \o x, pageSize)
    IN  RoundToFloat64(Norm(dr.q), dr.r # 0)

\* int(math.Ceil(f)) for f in units of Base^-FracLimbs, below 2^63
CeilToInt(f) ==
    LET whole == IF Len(f) > FracLimbs THEN SubSeq(f, FracLimbs + 1, Len(f)) ELSE <<>>
        frac == \E i \in 1 .. (IF Len(f) < FracLimbs THEN Len(f) ELSE FracLimbs) :
                    f[i] # 0
    IN  IF frac THEN Plus(whole, 1) ELSE whole

\* ------------------------------------------------------------------------
\* Strings the code inspects character by character are sequences of
\* one-character strings; codes and messages it only copies are strings.
\* ------------------------------------------------------------------------

\* strings.HasPrefix, strings.TrimPrefix
HasPrefix(s, p) == Len(s) >= Len(p) /\ SubSeq(s, 1, Len(p)) = p
TrimPrefix(s, p) == IF HasPrefix(s, p) THEN SubSeq(s, Len(p) + 1, Len(s)) ELSE s

\* ------------------------------------------------------------------------
\* gin.Context: request, keys, handler index, response writer
\* ------------------------------------------------------------------------

HeaderNames == {"Authorization", "X-Request-ID", "X-Trace-ID"}
NoHeaders == [h \in HeaderNames |-> <<>>]

CtxKeys == {"request_id", "user_id", "roles", "trace_id"}

\* A value of the context's key map (an interface{}): a string, a []string,
\* something else, or no entry.
Absent == [has |-> FALSE, typ |-> "none", str |-> <<>>, list |-> <<>>]
StringVal(s) == [has |-> TRUE, typ |-> "string", str |-> s, list |-> <<>>]
ListVal(l) == [has |-> TRUE, typ |-> "[]string", str |-> <<>>, list |-> l]
IntVal == [has |-> TRUE, typ |-> "int", str |-> <<>>, list |-> <<>>]
NoKeys == [k \in CtxKeys |-> Absent]

NewContext(path, headers) ==
    [path |-> path, reqHeaders |-> headers, keys |-> NoKeys, index |-> 1,
     aborted |-> FALSE, status |-> 0, headers |-> NoHeaders, bodies |-> <<>>]

\* c.GetHeader(name): "" when the request has no such header
GetHeader(c, name) == c.reqHeaders[name]

\* c.Set(key, value)
CtxSet(c, key, value) == [c EXCEPT !.keys[key] = value]

\* c.Header(name, value): sets the response header (an empty value removes it)
SetHeader(c, name, value) == [c EXCEPT !.headers[name] = value]

\* c.Abort()
Abort(c) == [c EXCEPT !.aborted = TRUE]

\* c.JSON(status, body): the status line is written once, the body appended
JSON(c, status, body) ==
    [c EXCEPT !.status = IF c.status = 0 THEN status ELSE c.status,
              !.bodies = Append(c.bodies, body)]

\* A JSON object: the set of its keys, and the values of those this model reads.
\* error, code and details are strings, path and request_id character sequences.
JSONObject(fields, error, code, details, path, requestId) ==
    [fields |-> fields, error |-> error, code |-> code, details |-> details,
     path |-> path, request_id |-> requestId]

\* The engine's handler loop (c.Next): after a handler returns, the next one of
\* the chain runs unless the handler called c.Abort().
Advance(c) == [c EXCEPT !.index = c.index + 1]

\* ------------------------------------------------------------------------
\* middleware: request ID
\* ------------------------------------------------------------------------

RequestIDHeader == "X-Request-ID"
RequestIDKey == "request_id"

\* What generateRequestID can return: 16 hexadecimal digits, or "req_" and a
\* timestamp when the random source fails (two representatives).
GeneratedIDs == { <<"a", "1", "f", "0">>, <<"r", "e", "q", "_", "7">> }

\* What a caller's own generator can return: anything, the empty string included.
CustomIDs == GeneratedIDs \cup { <<>> }

GeneratorOutputs(generator) ==
    IF generator = "generateRequestID" THEN GeneratedIDs ELSE CustomIDs

\* NewRequestIDMiddleware(config)'s handler; generated is what config.Generator
\* returns if it is called.
UseRequestIDIgnoringHeader(c, generated) ==
    SetHeader(CtxSet(c, RequestIDKey, StringVal(generated)), RequestIDHeader, generated)
UseRequestID(c, generated) ==
    LET requestID == IF GetHeader(c, RequestIDHeader) = <<>>
                       THEN generated
                       ELSE GetHeader(c, RequestIDHeader)
    IN  SetHeader(CtxSet(c, RequestIDKey, StringVal(requestID)),
                  RequestIDHeader, requestID)

\* RequestIDConfig: the default one, the documented custom one
\* (HeaderName: "X-Trace-ID", ContextKey: "trace_id"), and those between.
RequestIDConfigs(generator) ==
    [HeaderName : {RequestIDHeader, "X-Trace-ID"},
     ContextKey : {RequestIDKey, "trace_id"},
     Generator : {generator}]

\* NewRequestIDMiddleware(config)'s handler; generated is what config.Generator
\* returns if it is called.
NewRequestIDMiddleware(c, config, generated) ==
    LET requestID == IF GetHeader(c, config.HeaderName) = <<>>
                       THEN generated
                       ELSE GetHeader(c, config.HeaderName)
    IN  SetHeader(CtxSet(c, config.ContextKey, StringVal(requestID)),
                  config.HeaderName, requestID)

\* GetRequestID(c): (id, exists)
GetRequestID(c) ==
    LET requestID == c.keys[RequestIDKey]
    IN  IF ~requestID.has THEN [id |-> <<>>, exists |-> FALSE]
        ELSE IF requestID.typ = "string" THEN [id |-> requestID.str, exists |-> TRUE]
        ELSE [id |-> <<>>, exists |-> FALSE]

\* MustGetRequestID(c)
MustGetRequestID(c) ==
    IF GetRequestID(c).exists THEN GetRequestID(c).id ELSE <<>>

\* ------------------------------------------------------------------------
\* middleware: authentication
\* ------------------------------------------------------------------------

\* An error value: nil, an *AuthError with its code, or another error type.
NilErr == [isNil |-> TRUE, isAuthError |-> FALSE, code |-> "", message |-> ""]
AuthError(code, message) ==
    [isNil |-> FALSE, isAuthError |-> TRUE, code |-> code, message |-> message]
OtherError(message) ==
    [isNil |-> FALSE, isAuthError |-> FALSE, code |-> "", message |-> message]

ErrMissingToken == AuthError("missing_token", "Authorization token is required")
ErrInvalidToken == AuthError("invalid_token", "Invalid authorization token")
ErrInvalidAuthFormat ==
    AuthError("invalid_auth_format", "Authorization header must use Bearer format")

BearerPrefix == <<"B", "e", "a", "r", "e", "r", " ">>

\* BearerTokenExtractor(c): (token, err)
BearerTokenExtractorAnyScheme(c) ==
    LET authHeader == GetHeader(c, "Authorization")
    IN  IF authHeader = <<>> THEN [token |-> <<>>, err |-> ErrMissingToken]
        ELSE [token |-> authHeader, err |-> NilErr]
BearerTokenExtractor(c) ==
    LET authHeader == GetHeader(c, "Authorization")
        token == TrimPrefix(authHeader, BearerPrefix)
    IN  IF authHeader = <<>> THEN [token |-> <<>>, err |-> ErrMissingToken]
        ELSE IF ~HasPrefix(authHeader, BearerPrefix)
               THEN [token |-> <<>>, err |-> ErrInvalidAuthFormat]
        ELSE IF token = <<>> THEN [token |-> <<>>, err |-> ErrMissingToken]
        ELSE [token |-> token, err |-> NilErr]

\* DefaultAuthErrorHandler(c, err)
DefaultAuthErrorHandlerNoAbort(c, err) ==
    JSON(c, 401, JSONObject({"error", "code"}, "Authentication failed",
                            "auth_failed", "", <<>>, <<>>))
DefaultAuthErrorHandler(c, err) ==
    IF err.isAuthError
      THEN Abort(JSON(c, 401, JSONObject({"error", "code"}, err.message, err.code,
                                         "", <<>>, <<>>)))
      ELSE Abort(JSON(c, 401, JSONObject({"error", "code"}, "Authentication failed",
                                         "auth_failed", "", <<>>, <<>>)))

\* DefaultAuthConfig().SkipPaths
DefaultSkipPaths ==
    << <<"/", "h", "e", "a", "l", "t", "h">>,
       <<"/", "m", "e", "t", "r", "i", "c", "s">> >>

\* shouldSkipAuth with the comparison path == skipPath only
ShouldSkipAuthExactPath(path, skipPaths) ==
    \E i \in 1 .. Len(skipPaths) : path = skipPaths[i]

\* shouldSkipAuth(path, skipPaths)
ShouldSkipAuth(path, skipPaths) ==
    \E i \in 1 .. Len(skipPaths) :
        path = skipPaths[i] \/ HasPrefix(path, skipPaths[i])

\* The token validators a caller installs (func(string) (map, error)); "nil" is
\* no validator. tokenValidator is the one of TestAuthMiddleware; jwtValidator
\* fails with an error that is no *AuthError; allowAll returns an empty map.
Validators == {"nil", "tokenValidator", "jwtValidator", "allowAll"}

GoodToken == <<"g", "1">>

TestClaims ==
    [k \in CtxKeys |->
        IF k = "user_id" THEN StringVal(<<"1", "2", "3">>)
        ELSE IF k = "roles" THEN ListVal(<< <<"u", "s", "e", "r">> >>)
        ELSE Absent]

\* validator(token): (claims, err)
Validate(validator, token) ==
    IF validator = "allowAll" THEN [claims |-> NoKeys, err |-> NilErr]
    ELSE IF token = GoodToken THEN [claims |-> TestClaims, err |-> NilErr]
    ELSE IF validator = "tokenValidator" THEN [claims |-> NoKeys, err |-> ErrInvalidToken]
    ELSE [claims |-> NoKeys, err |-> OtherError("token is malformed")]

\* for key, value := range claims { c.Set(key, value) }
StoreClaims(c, claims) ==
    [c EXCEPT !.keys = [k \in CtxKeys |-> IF claims[k].has THEN claims[k] ELSE c.keys[k]]]

\* NewAuthMiddleware(config)'s handler, with config = DefaultAuthConfig() and
\* config.TokenValidator = validator (RequireAuth).
RequireAuthNoValidation(c, validator) ==
    IF ShouldSkipAuth(c.path, DefaultSkipPaths) THEN c
    ELSE IF ~BearerTokenExtractor(c).err.isNil
           THEN DefaultAuthErrorHandler(c, BearerTokenExtractor(c).err)
    ELSE c
RequireAuth(c, validator) ==
    LET extracted == BearerTokenExtractor(c)
        validated == Validate(validator, extracted.token)
    IN  IF ShouldSkipAuth(c.path, DefaultSkipPaths) THEN c
        ELSE IF ~extracted.err.isNil THEN DefaultAuthErrorHandler(c, extracted.err)
        ELSE IF validator = "nil" THEN c
        ELSE IF ~validated.err.isNil THEN DefaultAuthErrorHandler(c, validated.err)
        ELSE StoreClaims(c, validated.claims)

ErrInsufficientPermissions ==
    AuthError("insufficient_permissions", "Insufficient permissions for this operation")

\* roles, ok := userRoles.([]string), then the search for a required role
HasAnyRole(value, required) ==
    /\ value.has
    /\ value.typ = "[]string"
    /\ \E i \in 1 .. Len(required), j \in 1 .. Len(value.list) :
          value.list[j] = required[i]

\* RequireRole(role)'s handler
RequireRoleWithoutAbort(c, role) ==
    IF HasAnyRole(c.keys["roles"], <<role>>) THEN c
    ELSE DefaultAuthErrorHandlerNoAbort(c, ErrInsufficientPermissions)
RequireRole(c, role) ==
    IF ~c.keys["roles"].has THEN DefaultAuthErrorHandler(c, ErrInsufficientPermissions)
    ELSE IF c.keys["roles"].typ # "[]string"
           THEN DefaultAuthErrorHandler(c, ErrInsufficientPermissions)
    ELSE IF \E j \in 1 .. Len(c.keys["roles"].list) : c.keys["roles"].list[j] = role
           THEN c
    ELSE DefaultAuthErrorHandler(c, ErrInsufficientPermissions)

\* RequireAnyRole(roles...)'s handler
RequireAnyRole(c, roles) ==
    IF ~c.keys["roles"].has THEN DefaultAuthErrorHandler(c, ErrInsufficientPermissions)
    ELSE IF c.keys["roles"].typ # "[]string"
           THEN DefaultAuthErrorHandler(c, ErrInsufficientPermissions)
    ELSE IF \E i \in 1 .. Len(roles), j \in 1 .. Len(c.keys["roles"].list) :
                c.keys["roles"].list[j] = roles[i]
           THEN c
    ELSE DefaultAuthErrorHandler(c, ErrInsufficientPermissions)

\* OptionalAuth(validator)'s handler; every branch ends with c.Next().
OptionalAuthRejecting(c, validator) ==
    LET extracted == BearerTokenExtractor(c)
        validated == Validate(validator, extracted.token)
    IN  IF ~extracted.err.isNil THEN c
        ELSE IF validator = "nil" THEN c
        ELSE IF ~validated.err.isNil THEN DefaultAuthErrorHandler(c, validated.err)
        ELSE StoreClaims(c, validated.claims)
OptionalAuth(c, validator) ==
    LET extracted == BearerTokenExtractor(c)
        validated == Validate(validator, extracted.token)
    IN  IF ~extracted.err.isNil THEN c
        ELSE IF validator = "nil" THEN c
        ELSE IF ~validated.err.isNil THEN c
        ELSE StoreClaims(c, validated.claims)

\* ------------------------------------------------------------------------
\* responses: error helpers
\* ------------------------------------------------------------------------

\* json.Marshal of an ErrorResponse: error, code and timestamp are always
\* written; details, path, request_id and metadata are omitempty.
MarshalErrorResponseKeepEmpty(error, code, details, path, requestID, hasMetadata) ==
    JSONObject({"error", "code", "timestamp", "details", "path", "request_id"},
               error, code, details, path, requestID)
MarshalErrorResponse(error, code, details, path, requestID, hasMetadata) ==
    JSONObject({"error", "code", "timestamp"}
                 \cup (IF details # "" THEN {"details"} ELSE {})
                 \cup (IF path # <<>> THEN {"path"} ELSE {})
                 \cup (IF requestID # <<>> THEN {"request_id"} ELSE {})
                 \cup (IF hasMetadata THEN {"metadata"} ELSE {}),
               error, code, details, path, requestID)

\* if requestID, exists := c.Get("request_id"); exists {
\*     if id, ok := requestID.(string); ok { response.RequestID = id } }
ResponseRequestIDNone(c) == <<>>
ResponseRequestID(c) ==
    IF c.keys["request_id"].has /\ c.keys["request_id"].typ = "string"
      THEN c.keys["request_id"].str
      ELSE <<>>

\* Error(c, status, code, message)
Error(c, status, code, message) ==
    JSON(c, status,
         MarshalErrorResponse(message, code, "", c.path, ResponseRequestID(c), FALSE))

\* ErrorWithDetails(c, status, code, message, details)
ErrorWithDetails(c, status, code, message, details) ==
    JSON(c, status,
         MarshalErrorResponse(message, code, details, c.path, ResponseRequestID(c), FALSE))

\* ErrorWithMetadata(c, status, code, message, metadata)
ErrorWithMetadata(c, status, code, message, hasMetadata) ==
    JSON(c, status,
         MarshalErrorResponse(message, code, "", c.path, ResponseRequestID(c), hasMetadata))

\* HandleAPIError(c, err), err an *APIError
HandleAPIError(c, err) ==
    JSON(c, err.StatusCode,
         MarshalErrorResponse(err.Message, err.Code, err.Details, c.path,
                              ResponseRequestID(c), err.Metadata))

BadRequest(c, message) == Error(c, 400, "bad_request", message)
Unauthorized(c, message) == Error(c, 401, "unauthorized", message)
Forbidden(c, message) == Error(c, 403, "forbidden", message)
NotFound(c, message) == Error(c, 404, "not_found", message)
MethodNotAllowed(c, message) == Error(c, 405, "method_not_allowed", message)
Conflict(c, message) == Error(c, 409, "conflict", message)
UnprocessableEntity(c, message) == Error(c, 422, "unprocessable_entity", message)
TooManyRequests(c, message) == Error(c, 429, "too_many_requests", message)
InternalError(c, message) == Error(c, 500, "internal_error", message)
ServiceUnavailable(c, message) == Error(c, 503, "service_unavailable", message)
DatabaseError(c, message) == Error(c, 500, "database_error", message)
ExternalServiceErrorAs500(c, message) == Error(c, 500, "external_service_error", message)
ExternalServiceError(c, message) == Error(c, 502, "external_service_error", message)

\* ------------------------------------------------------------------------
\* middleware: authentication with an AuthConfig
\* ------------------------------------------------------------------------

\* The skip paths of the documented custom configuration
CustomSkipPaths ==
    << <<"/", "h", "e", "a", "l", "t", "h">>,
       <<"/", "p", "u", "b", "l", "i", "c">> >>

\* config.ErrorHandler(c, err): DefaultAuthErrorHandler, or the handler of
\* the documented custom configuration,
\* func(c *gin.Context, err error) { responses.Unauthorized(c, "Authentication failed") }
ErrorHandlers == {"DefaultAuthErrorHandler", "responses.Unauthorized"}
CallErrorHandler(handler, c, err) ==
    IF handler = "DefaultAuthErrorHandler" THEN DefaultAuthErrorHandler(c, err)
    ELSE Unauthorized(c, "Authentication failed")

\* DefaultAuthConfig(), with its TokenValidator set
DefaultAuthConfig(validator) ==
    [SkipPaths |-> DefaultSkipPaths, TokenExtractor |-> "BearerTokenExtractor",
     TokenValidator |-> validator, ErrorHandler |-> "DefaultAuthErrorHandler"]

AuthConfigs(validator) ==
    [SkipPaths : {DefaultSkipPaths, CustomSkipPaths, <<>>},
     TokenExtractor : {"BearerTokenExtractor"},
     TokenValidator : {validator},
     ErrorHandler : ErrorHandlers]

\* NewAuthMiddleware(config)'s handler
NewAuthMiddleware(c, config) ==
    LET extracted == BearerTokenExtractor(c)
        validated == Validate(config.TokenValidator, extracted.token)
    IN  IF ShouldSkipAuth(c.path, config.SkipPaths) THEN c
        ELSE IF ~extracted.err.isNil
               THEN CallErrorHandler(config.ErrorHandler, c, extracted.err)
        ELSE IF config.TokenValidator = "nil" THEN c
        ELSE IF ~validated.err.isNil
               THEN CallErrorHandler(config.ErrorHandler, c, validated.err)
        ELSE StoreClaims(c, validated.claims)

\* ------------------------------------------------------------------------
\* middleware: recovery
\* ------------------------------------------------------------------------

DefaultRecoveryConfig ==
    [EnableStackTrace |-> TRUE, CustomHandler |-> "nil", SkipPaths |-> {}]

\* c.AbortWithStatus(code)
AbortWithStatus(c, code) ==
    Abort([c EXCEPT !.status = IF c.status = 0 THEN code ELSE c.status])

\* The function NewRecoveryMiddleware(config) hands to gin.CustomRecovery
\* when config.CustomHandler is nil.
RecoveryHandler(c, config) ==
    LET requestID == MustGetRequestID(c)
    IN  IF c.path \in config.SkipPaths THEN AbortWithStatus(c, 500)
        ELSE JSON(c, 500,
                  JSONObject({"error", "code"} \cup
                                 (IF requestID # <<>> THEN {"request_id"} ELSE {}),
                             "Internal server error", "internal_error", "", <<>>,
                             requestID))

\* gin.CustomRecovery's deferred function, for the recovered value: after a
\* write to a broken connection nothing can be sent and the chain is aborted,
\* otherwise the handler function is called.
CustomRecovery(c, recovered, config) ==
    IF recovered = "broken pipe" THEN Abort(c) ELSE RecoveryHandler(c, config)

\* ------------------------------------------------------------------------
\* middleware: health
\* ------------------------------------------------------------------------

HealthStatusHealthy == "healthy"
HealthStatusUnhealthy == "unhealthy"
HealthStatusDegraded == "degraded"

\* What a HealthChecker may put into HealthCheck.Status: HealthStatus is a
\* string type, so also a value that is none of the three constants.
CheckStatuses ==
    {HealthStatusHealthy, HealthStatusUnhealthy, HealthStatusDegraded, "unknown"}

CheckerNames == {"database", "memory"}

\* DefaultHealthConfig(serviceName, version), with the checkers added by
\* AddHealthChecker (a set of names)
DefaultHealthConfig(serviceName, version, checkers) ==
    [ServiceName |-> serviceName, ServiceVersion |-> version, Checkers |-> checkers,
     HealthPath |-> <<"/", "h", "e", "a", "l", "t", "h">>,
     ReadinessPath |-> <<"/", "r", "e", "a", "d", "y">>,
     LivenessPath |-> <<"/", "l", "i", "v", "e">>]

\* runHealthChecks: every registered checker is called once; reported[name]
\* is the status its call returns.
runHealthChecks(checkers, reported) == [name \in checkers |-> reported[name]]

determineOverallStatusOfLastCheck(checks) ==
    IF DOMAIN checks = {} THEN HealthStatusHealthy
    ELSE LET name == CHOOSE n \in DOMAIN checks : TRUE
         IN  IF checks[name] \in {HealthStatusUnhealthy, HealthStatusDegraded}
             THEN checks[name] ELSE HealthStatusHealthy

determineOverallStatus(checks) ==
    IF DOMAIN checks = {} THEN HealthStatusHealthy
    ELSE LET hasUnhealthy == \E name \in DOMAIN checks : checks[name] = HealthStatusUnhealthy
             hasDegraded == \E name \in DOMAIN checks : checks[name] = HealthStatusDegraded
         IN  IF hasUnhealthy THEN HealthStatusUnhealthy
             ELSE IF hasDegraded THEN HealthStatusDegraded
             ELSE HealthStatusHealthy

\* The body of a health response: its keys, and the values this model reads.
HealthBody(fields, status, service) ==
    [fields |-> fields, status |-> status, service |-> service]

handleHealthCheck(c, config, detailed, reported) ==
    LET run == detailed /\ config.Checkers # {}
        status == IF run
                  THEN determineOverallStatus(runHealthChecks(config.Checkers, reported))
                  ELSE HealthStatusHealthy
        statusCode == IF status = HealthStatusUnhealthy THEN 503 ELSE 200
    IN  JSON(c, statusCode,
             HealthBody({"status", "timestamp", "service", "version", "uptime"}
                            \cup (IF run THEN {"checks"} ELSE {}),
                        status, config.ServiceName))

handleReadinessCheck(c, config, reported) ==
    LET status == determineOverallStatus(runHealthChecks(config.Checkers, reported))
        statusCode == IF status = HealthStatusUnhealthy THEN 503 ELSE 200
    IN  JSON(c, statusCode,
             HealthBody({"status", "timestamp", "service"}, status, config.ServiceName))

handleLivenessCheck(c, config) ==
    JSON(c, 200, HealthBody({"status", "timestamp", "service", "uptime"},
                            HealthStatusHealthy, config.ServiceName))

\* HealthMiddleware(config): the handler it returns. On another path it
\* calls c.Next(); on its own paths it answers and returns.
HealthMiddleware(c, config, reported) ==
    CASE c.path = config.HealthPath -> handleHealthCheck(c, config, TRUE, reported)
      [] c.path = config.ReadinessPath -> handleReadinessCheck(c, config, reported)
      [] c.path = config.LivenessPath -> handleLivenessCheck(c, config)
      [] OTHER -> c

\* ------------------------------------------------------------------------
\* Route handlers of the embedding service
\* ------------------------------------------------------------------------

\* The handler of the tests: c.JSON(200, gin.H{"request_id": MustGetRequestID(c)})
EchoHandler(c) ==
    JSON(c, 200, JSONObject({"request_id"}, "", "", "", <<>>, MustGetRequestID(c)))

MessageHelpers ==
    {"BadRequest", "Unauthorized", "Forbidden", "NotFound", "MethodNotAllowed",
     "Conflict", "UnprocessableEntity", "TooManyRequests", "InternalError",
     "ServiceUnavailable", "DatabaseError", "ExternalServiceError"}

GenericHelpers == {"Error", "ErrorWithDetails", "ErrorWithMetadata", "HandleAPIError"}

Messages == {"Test error", ""}

\* What a route handler does: which function it calls, with which arguments.
Call(fn, status, code, message, details, metadata) ==
    [fn |-> fn, status |-> status, code |-> code, message |-> message,
     details |-> details, metadata |-> metadata]

EchoCall == Call("echo", 0, "", "", "", FALSE)

HelperCalls ==
    {Call(fn, 0, "", m, "", FALSE) : fn \in MessageHelpers, m \in Messages}
    \cup {Call(fn, st, "teapot", m, d, md) :
            fn \in GenericHelpers, st \in {400, 418}, m \in Messages,
            d \in {"", "more"}, md \in BOOLEAN}

\* Handlers that panic: at once, as the handler of TestRecoveryMiddleware
\* does (panic("test panic")), or after they have written a response. The
\* value is an ordinary one, or the *net.OpError of a write to a connection
\* the client has closed.
PanicValues == {"test panic", "broken pipe"}
PanicCalls ==
    {Call(fn, 0, "", v, "", FALSE) : fn \in {"panic", "write_then_panic"}, v \in PanicValues}
Panics(call) == call.fn \in {"panic", "write_then_panic"}

NoPanic == [value |-> "", caught |-> FALSE]

\* The route handler run on the context c (for one that panics: up to the
\* panic).
Invoke(call, c) ==
    CASE call.fn = "echo" -> EchoHandler(c)
      [] call.fn = "panic" -> c
      [] call.fn = "write_then_panic" -> EchoHandler(c)
      [] call.fn = "BadRequest" -> BadRequest(c, call.message)
      [] call.fn = "Unauthorized" -> Unauthorized(c, call.message)
      [] call.fn = "Forbidden" -> Forbidden(c, call.message)
      [] call.fn = "NotFound" -> NotFound(c, call.message)
      [] call.fn = "MethodNotAllowed" -> MethodNotAllowed(c, call.message)
      [] call.fn = "Conflict" -> Conflict(c, call.message)
      [] call.fn = "UnprocessableEntity" -> UnprocessableEntity(c, call.message)
      [] call.fn = "TooManyRequests" -> TooManyRequests(c, call.message)
      [] call.fn = "InternalError" -> InternalError(c, call.message)
      [] call.fn = "ServiceUnavailable" -> ServiceUnavailable(c, call.message)
      [] call.fn = "DatabaseError" -> DatabaseError(c, call.message)
      [] call.fn = "ExternalServiceError" -> ExternalServiceError(c, call.message)
      [] call.fn = "Error" -> Error(c, call.status, call.code, call.message)
      [] call.fn = "ErrorWithDetails" ->
            ErrorWithDetails(c, call.status, call.code, call.message, call.details)
      [] call.fn = "ErrorWithMetadata" ->
            ErrorWithMetadata(c, call.status, call.code, call.message, call.metadata)
      [] call.fn = "HandleAPIError" ->
            HandleAPIError(c, [StatusCode |-> call.status, Code |-> call.code,
                               Message |-> call.message, Details |-> call.details,
                               Metadata |-> call.metadata])

\* ------------------------------------------------------------------------
\* Serving one request
\* ------------------------------------------------------------------------

Paths ==
    { <<"/">>,
      <<"/", "a", "p", "i">>,
      <<"/", "h", "e", "a", "l", "t", "h">>,
      <<"/", "h", "e", "a", "l", "t", "h", "z">>,
      <<"/", "m", "e", "t", "r", "i", "c", "s">> }

AuthorizationHeaders ==
    { <<>>,
      <<"B", "a", "s", "i", "c", " ", "g", "1">>,
      <<"b", "e", "a", "r", "e", "r", " ", "g", "1">>,
      <<"B", "e", "a", "r", "e", "r">>,
      <<"B", "e", "a", "r", "e", "r", " ">>,
      <<"B", "e", "a", "r", "e", "r", " ", "g", "1">>,
      <<"B", "e", "a", "r", "e", "r", " ", "b", "2">> }

RequestIDHeaders == { <<>>, <<"e", "x", "i", "s", "t">> }

HttpInit ==
    /\ hPc = "idle"
    /\ engine = [chain |-> <<>>, generator |-> "generateRequestID",
                 validator |-> "nil", call |-> EchoCall]
    /\ gc = NewContext(<<"/">>, NoHeaders)
    /\ ran = <<>>
    /\ panicked = NoPanic

\* The request is over: the chain is exhausted or a handler aborted it.
Served == hPc = "serving" /\ (gc.aborted \/ gc.index > Len(engine.chain))

Current == IF hPc = "serving" /\ ~Served THEN engine.chain[gc.index] ELSE "none"

\* A request arrives at an engine built with one of the given chains.
Receive(chains, generators, validators, calls, authHeaders) ==
    /\ hPc = "idle"
    /\ \E ch \in chains, g \in generators, v \in validators, call \in calls :
          engine' = [chain |-> ch, generator |-> g, validator |-> v, call |-> call]
    /\ \E path \in Paths, auth \in authHeaders, rid \in RequestIDHeaders :
          gc' = NewContext(path, [h \in HeaderNames |->
                                    IF h = "Authorization" THEN auth
                                    ELSE IF h = RequestIDHeader THEN rid
                                    ELSE <<>>])
    /\ hPc' = "serving"
    /\ ran' = <<>>
    /\ UNCHANGED <<panicked, connVars, pageVars, srvVars>>

\* The response is complete: the engine takes the context back (its pool
\* resets it) and waits for the next request.
Respond ==
    /\ Served
    /\ hPc' = "idle"
    /\ engine' = [chain |-> <<>>, generator |-> "generateRequestID",
                  validator |-> "nil", call |-> EchoCall]
    /\ gc' = NewContext(<<"/">>, NoHeaders)
    /\ ran' = <<>>
    /\ panicked' = NoPanic
    /\ UNCHANGED <<connVars, pageVars, srvVars>>

\* router.Use(RequireAuth(validator)); router.GET(path, handler)
ReceiveAuth ==
    Receive({<<"auth", "handler">>}, {"generateRequestID"}, Validators, {EchoCall},
            AuthorizationHeaders)

\* router.Use(...request ID middleware or none...); router.GET(path, handler)
ReceiveResp ==
    Receive({<<"handler">>, <<"request_id", "handler">>, <<"app", "handler">>,
             <<"app", "request_id", "handler">>},
            {"generateRequestID", "custom"}, {"nil"}, {EchoCall} \cup HelperCalls,
            {<<>>})

\* router.Use(middleware.NewRequestIDMiddleware(requestIDConfig)); the request
\* may carry X-Request-ID and X-Trace-ID.
ReceiveRequestIDConfig ==
    /\ hPc = "idle"
    /\ \E g \in {"generateRequestID", "custom"} :
          engine' = [chain |-> <<"request_id_config", "handler">>, generator |-> g,
                     validator |-> "nil", call |-> EchoCall]
    /\ \E path \in {<<"/">>, <<"/", "a", "p", "i">>},
          rid \in RequestIDHeaders, trace \in RequestIDHeaders \cup GeneratedIDs :
          gc' = NewContext(path, [h \in HeaderNames |->
                                    IF h = RequestIDHeader THEN rid
                                    ELSE IF h = "X-Trace-ID" THEN trace
                                    ELSE <<>>])
    /\ hPc' = "serving"
    /\ ran' = <<>>
    /\ UNCHANGED <<panicked, connVars, pageVars, srvVars>>

\* NewRequestIDMiddleware(config), for any configuration with the engine's
\* generator
RunRequestIDConfig ==
    /\ Current = "request_id_config"
    /\ \E config \in RequestIDConfigs(engine.generator),
          generated \in GeneratorOutputs(engine.generator) :
          /\ gc' = Advance(NewRequestIDMiddleware(gc, config, generated))
          /\ ran' = Append(ran, [name |-> "request_id_config", c |-> gc,
                                  config |-> config])
    /\ UNCHANGED <<hPc, engine, panicked, connVars, pageVars, srvVars>>

\* DefaultRequestIDMiddleware / CustomRequestIDMiddleware(generator)
RunRequestID ==
    /\ Current = "request_id"
    /\ \E generated \in GeneratorOutputs(engine.generator) :
          gc' = Advance(UseRequestID(gc, generated))
    /\ ran' = Append(ran, [name |-> "request_id", c |-> gc])
    /\ UNCHANGED <<hPc, engine, panicked, connVars, pageVars, srvVars>>

\* A middleware of the embedding service that stores its own value under
\* "request_id": c.Set("request_id", v).
RunApp ==
    /\ Current = "app"
    /\ \E v \in {IntVal, StringVal(<<>>), StringVal(<<"a", "p", "p">>)} :
          gc' = Advance(CtxSet(gc, "request_id", v))
    /\ ran' = Append(ran, [name |-> "app", c |-> gc])
    /\ UNCHANGED <<hPc, engine, panicked, connVars, pageVars, srvVars>>

\* RequireAuth(validator)
RunAuth ==
    /\ Current = "auth"
    /\ gc' = Advance(RequireAuth(gc, engine.validator))
    /\ ran' = Append(ran, [name |-> "auth", c |-> gc])
    /\ UNCHANGED <<hPc, engine, panicked, connVars, pageVars, srvVars>>

\* The route handler: it returns, or it panics.
RunHandler ==
    /\ Current = "handler"
    /\ ran' = Append(ran, [name |-> "handler", c |-> gc])
    /\ IF Panics(engine.call)
       THEN /\ gc' = Invoke(engine.call, gc)
            /\ hPc' = "panicking"
            /\ panicked' = [value |-> engine.call.message, caught |-> FALSE]
       ELSE /\ gc' = Advance(Invoke(engine.call, gc))
            /\ UNCHANGED <<hPc, panicked>>
    /\ UNCHANGED <<engine, connVars, pageVars, srvVars>>

\* router.Use(DefaultRecoveryMiddleware()): the handler defers the recovery
\* and calls c.Next().
RunRecovery ==
    /\ Current = "recovery"
    /\ gc' = Advance(gc)
    /\ ran' = Append(ran, [name |-> "recovery", c |-> gc])
    /\ UNCHANGED <<hPc, engine, panicked, connVars, pageVars, srvVars>>

\* A middleware of the embedding service that panics.
RunAppPanic ==
    /\ Current = "app_panic"
    /\ \E v \in PanicValues : panicked' = [value |-> v, caught |-> FALSE]
    /\ hPc' = "panicking"
    /\ ran' = Append(ran, [name |-> "app_panic", c |-> gc])
    /\ UNCHANGED <<engine, gc, connVars, pageVars, srvVars>>

\* The recovery middleware is on the stack: it has called c.Next() and has
\* not returned, which it does once its deferred function has run.
RecoveryOnStack ==
    \E i \in 1 .. Len(ran) :
        /\ ran[i].name = "recovery"
        /\ \A j \in (i + 1) .. Len(ran) : ran[j].name # "recovered"

\* The panic reaches the deferred function of the recovery middleware, which
\* returns to the handler loop that called the middleware.
Recover ==
    /\ hPc = "panicking"
    /\ RecoveryOnStack
    /\ gc' = Advance(CustomRecovery(gc, panicked.value, DefaultRecoveryConfig))
    /\ hPc' = "serving"
    /\ panicked' = [panicked EXCEPT !.caught = TRUE]
    /\ ran' = Append(ran, [name |-> "recovered", c |-> gc])
    /\ UNCHANGED <<engine, connVars, pageVars, srvVars>>

\* No handler of the chain recovers: the panic leaves Engine.ServeHTTP.
Propagate ==
    /\ hPc = "panicking"
    /\ ~RecoveryOnStack
    /\ hPc' = "crashed"
    /\ UNCHANGED <<engine, gc, ran, panicked, connVars, pageVars, srvVars>>

\* router.Use(DefaultRecoveryMiddleware()), alone or with the request ID
\* middleware or a middleware of the service; the handler returns or panics.
ReceiveRec ==
    Receive({<<"handler">>, <<"recovery", "handler">>,
             <<"recovery", "request_id", "handler">>,
             <<"request_id", "recovery", "handler">>,
             <<"app", "recovery", "handler">>,
             <<"recovery", "app_panic", "handler">>},
            {"generateRequestID"}, {"nil"}, {EchoCall} \cup PanicCalls, {<<>>})

\* router.Use(NewAuthMiddleware(authConfig)); router.GET(path, handler)
ReceiveAuthConfig ==
    Receive({<<"auth_config", "handler">>}, {"generateRequestID"}, Validators,
            {EchoCall}, AuthorizationHeaders)

\* NewAuthMiddleware(config), for any configuration with the engine's validator
RunAuthConfig ==
    /\ Current = "auth_config"
    /\ \E config \in AuthConfigs(engine.validator) :
          /\ gc' = Advance(NewAuthMiddleware(gc, config))
          /\ ran' = Append(ran, [name |-> "auth_config", c |-> gc, config |-> config])
    /\ UNCHANGED <<hPc, engine, panicked, connVars, pageVars, srvVars>>

RoleAdmin == <<"a", "d", "m", "i", "n">>
RoleModerator == <<"m", "o", "d">>
RoleUser == <<"u", "s", "e", "r">>

\* What the middleware in front of the role check leaves under "roles":
\* nothing, a []string, or a value of another type.
RolesValues ==
    {Absent, IntVal, StringVal(RoleAdmin), ListVal(<<>>), ListVal(<<RoleAdmin>>),
     ListVal(<<RoleUser>>), ListVal(<<RoleUser, RoleModerator>>),
     ListVal(<<RoleUser, RoleAdmin>>)}

\* The role checks installed: RequireRole(role) or RequireAnyRole(roles...).
RoleChecks ==
    {[fn |-> "RequireRole", roles |-> <<r>>] : r \in {RoleAdmin, RoleUser}}
    \cup {[fn |-> "RequireAnyRole", roles |-> rs] :
             rs \in {<<>>, <<RoleAdmin>>, <<RoleAdmin, RoleModerator>>}}

\* group.Use(RequireAuth(validator)) or a middleware of the service that
\* sets the roles; group.Use(RequireRole(...)); group.GET(path, handler)
ReceiveRole ==
    Receive({<<"auth", "require_role", "handler">>,
             <<"set_roles", "require_role", "handler">>},
            {"generateRequestID"}, {"tokenValidator", "allowAll"}, {EchoCall},
            { <<>>, <<"B", "e", "a", "r", "e", "r", " ", "g", "1">>,
              <<"B", "e", "a", "r", "e", "r", " ", "b", "2">> })

\* A middleware of the service: c.Set("roles", v), or nothing.
RunSetRoles ==
    /\ Current = "set_roles"
    /\ \E v \in RolesValues :
          gc' = Advance(IF v.has THEN CtxSet(gc, "roles", v) ELSE gc)
    /\ ran' = Append(ran, [name |-> "set_roles", c |-> gc])
    /\ UNCHANGED <<hPc, engine, panicked, connVars, pageVars, srvVars>>

\* RequireRole(role) / RequireAnyRole(roles...)
RunRequireRole ==
    /\ Current = "require_role"
    /\ \E check \in RoleChecks :
          /\ gc' = Advance(IF check.fn = "RequireRole"
                           THEN RequireRole(gc, check.roles[1])
                           ELSE RequireAnyRole(gc, check.roles))
          /\ ran' = Append(ran, [name |-> "require_role", c |-> gc, check |-> check])
    /\ UNCHANGED <<hPc, engine, panicked, connVars, pageVars, srvVars>>

\* router.Use(OptionalAuth(validator)); router.GET(path, handler)
ReceiveOptionalAuth ==
    Receive({<<"optional_auth", "handler">>}, {"generateRequestID"}, Validators,
            {EchoCall}, AuthorizationHeaders)

\* OptionalAuth(validator)
RunOptionalAuth ==
    /\ Current = "optional_auth"
    /\ gc' = Advance(OptionalAuth(gc, engine.validator))
    /\ ran' = Append(ran, [name |-> "optional_auth", c |-> gc])
    /\ UNCHANGED <<hPc, engine, panicked, connVars, pageVars, srvVars>>

\* The paths of the requests to an engine with the health middleware.
HealthRequestPaths ==
    { <<"/", "h", "e", "a", "l", "t", "h">>,
      <<"/", "r", "e", "a", "d", "y">>,
      <<"/", "l", "i", "v", "e">>,
      <<"/", "a", "p", "i">> }

\* router.Use(HealthMiddleware(healthConfig)), alone or behind the request
\* ID middleware; the route handler answers every path.
ReceiveHealth ==
    /\ hPc = "idle"
    /\ \E ch \in {<<"health", "handler">>, <<"request_id", "health", "handler">>} :
          engine' = [chain |-> ch, generator |-> "generateRequestID",
                     validator |-> "nil", call |-> EchoCall]
    /\ \E path \in HealthRequestPaths : gc' = NewContext(path, NoHeaders)
    /\ hPc' = "serving"
    /\ ran' = <<>>
    /\ UNCHANGED <<panicked, connVars, pageVars, srvVars>>

\* HealthMiddleware(config) with any set of registered checkers, each
\* reporting any status.
RunHealth ==
    /\ Current = "health"
    /\ \E checkers \in SUBSET CheckerNames :
          \E reported \in [checkers -> CheckStatuses] :
              /\ gc' = Advance(HealthMiddleware(gc,
                           DefaultHealthConfig("test-service", "1.0.0", checkers),
                           reported))
              /\ ran' = Append(ran, [name |-> "health", c |-> gc, checks |-> reported])
    /\ UNCHANGED <<hPc, engine, panicked, connVars, pageVars, srvVars>>

\* ------------------------------------------------------------------------
\* responses: pagination
\* ------------------------------------------------------------------------

DefaultPage == 1
DefaultPageSize == 10
MaxPageSize == 100

\* strconv.Atoi: an optional sign and decimal digits; a syntax error for
\* anything else and a range error outside int.
Digits == <<"0", "1", "2", "3", "4", "5", "6", "7", "8", "9">>
IsDigit(ch) == \E d \in 1 .. Len(Digits) : Digits[d] = ch
DigitValue(ch) == (CHOOSE d \in 1 .. Len(Digits) : Digits[d] = ch) - 1

\* The digits are read ChunkDigits at a time.
ChunkDigits == LimbBits \div 4

RECURSIVE ChunkValue(_)
ChunkValue(s) ==
    IF s = <<>> THEN 0
    ELSE Len(Digits) * ChunkValue(SubSeq(s, 1, Len(s) - 1)) + DigitValue(s[Len(s)])

RECURSIVE ParseDigits(_)
ParseDigits(s) ==
    IF Len(s) <= ChunkDigits THEN FromNat(ChunkValue(s))
    ELSE LET front == ParseDigits(SubSeq(s, 1, Len(s) - ChunkDigits))
         IN  Plus(Times(front, Len(Digits) ^ ChunkDigits),
                  ChunkValue(SubSeq(s, Len(s) - ChunkDigits + 1, Len(s))))

Atoi(s) ==
    LET signed == s # <<>> /\ s[1] \in {"+", "-"}
        body == IF signed THEN Tail(s) ELSE s
        syntax == body = <<>> \/ \E i \in 1 .. Len(body) : ~IsDigit(body[i])
        mag == ParseDigits(body)
        neg == signed /\ s[1] = "-"
        range == IF neg THEN Less(Pow2(IntBits - 1), mag)
                 ELSE ~Less(mag, Pow2(IntBits - 1))
    IN  IF syntax THEN [err |-> "ErrSyntax", value |-> IntOf(0)]
        ELSE IF range THEN [err |-> "ErrRange", value |-> IntOf(0)]
        ELSE [err |-> "nil", value |-> [neg |-> neg /\ mag # <<>>, mag |-> mag]]

\* strconv.Itoa
RECURSIVE FormatDigits(_)
FormatDigits(n) ==
    IF n < Len(Digits) THEN <<Digits[n + 1]>>
    ELSE Append(FormatDigits(n \div Len(Digits)), Digits[(n % Len(Digits)) + 1])
Itoa(n) == IF n < 0 THEN <<"-">> \o FormatDigits(-n) ELSE FormatDigits(n)

\* The query string of a request: a parameter is present with a value, or
\* absent.
Param(s) == [present |-> TRUE, value |-> s]
NoParam == [present |-> FALSE, value |-> <<>>]

\* c.Query(key): the value, "" for an absent parameter
Query(q, key) == IF q[key].present THEN q[key].value ELSE <<>>

getIntParam(q, key, defaultValue) ==
    LET param == Query(q, key)
        parsed == Atoi(param)
    IN  IF param = <<>> THEN IntOf(defaultValue)
        ELSE IF parsed.err # "nil" THEN IntOf(defaultValue)
        ELSE parsed.value

\* (page - 1) * pageSize in int arithmetic, for page >= 1 and pageSize >= 1
Offset(page, pageSize) == Wrap64(Times(Minus1(page.mag), ToNat(pageSize.mag)))

GetPaginationParams(q) ==
    LET page0 == getIntParam(q, "page", DefaultPage)
        pageSize0 == getIntParam(q, "page_size", DefaultPageSize)
        page == IF IntLess(page0, IntOf(1)) THEN IntOf(DefaultPage) ELSE page0
        pageSize1 == IF IntLess(pageSize0, IntOf(1)) THEN IntOf(DefaultPageSize)
                     ELSE pageSize0
        pageSize == IF IntLess(IntOf(MaxPageSize), pageSize1) THEN IntOf(MaxPageSize)
                    ELSE pageSize1
    IN  [Page |-> page, PageSize |-> pageSize,
         Offset |-> Offset(page, pageSize), Limit |-> pageSize]

NoAPIError == [isNil |-> TRUE, StatusCode |-> 0, Code |-> "", Message |-> <<>>]
NewBadRequestError(message) ==
    [isNil |-> FALSE, StatusCode |-> 400, Code |-> "bad_request", Message |-> message]

ValidatePaginationParams(page, pageSize) ==
    IF IntLess(page, IntOf(1))
    THEN NewBadRequestError(<<"Page must be greater than 0">>)
    ELSE IF IntLess(pageSize, IntOf(1))
    THEN NewBadRequestError(<<"Page size must be greater than 0">>)
    ELSE IF IntLess(IntOf(MaxPageSize), pageSize)
    THEN NewBadRequestError(<<"Page size cannot exceed ">> \o Itoa(MaxPageSize))
    ELSE NoAPIError

\* int(math.Ceil(float64(total) / float64(pageSize))), for total >= 0 and a
\* pageSize >= 1 that float64 holds exactly
CalculateTotalPages(total, pageSize) ==
    [neg |-> FALSE,
     mag |-> CeilToInt(Float64Quotient(Float64OfInt(total.mag), pageSize))]

CreatePaginationMeta(total, page, pageSize) ==
    LET totalPages == CalculateTotalPages(total, pageSize)
    IN  [Total |-> total, Page |-> IntOf(page), PageSize |-> IntOf(pageSize),
         TotalPages |-> totalPages,
         HasNext |-> IntLess(IntOf(page), totalPages),
         HasPrev |-> page > 1]

\* The body Paginated sends with status 200.
Paginated(data, total, page, pageSize) ==
    LET totalPages == CalculateTotalPages(total, pageSize)
    IN  [status |-> 200,
         body |-> [data |-> data, total |-> total, page |-> IntOf(page),
                   page_size |-> IntOf(pageSize), total_pages |-> totalPages,
                   has_next |-> IntLess(IntOf(page), totalPages),
                   has_prev |-> page > 1,
                   timestamp |-> "now"]]

\* The totals the functions are called with: the small ones, and the int64
\* values around the last one up to which float64 holds every integer.
Totals ==
    {IntOf(n) : n \in 0 .. MaxTotal} \cup
    {[neg |-> FALSE, mag |-> Plus(Minus1(Pow2(Float64Precision)), k)] : k \in 0 .. 4}
PageSizes == 1 .. MaxPageSizeArg
Pages == -1 .. MaxPageArg

\* The values of page and page_size in a query string.
QueryValues ==
    {NoParam, Param(<<>>)} \cup
    {Param(Itoa(n)) : n \in -2 .. MaxQueryInt} \cup
    {Param(s) : s \in
        { <<"a", "b", "c">>, <<"1", "x">>, <<"+", "3">>, <<"-">>, <<"0", "0", "7">>,
          <<"1", ".", "5">>,
          Itoa(MaxQueryInt) \o Itoa(MaxQueryInt) \o Itoa(MaxQueryInt) \o Itoa(MaxQueryInt),
          \* the largest int, and the number after it
          <<"9", "2", "2", "3", "3", "7", "2", "0", "3", "6",
            "8", "5", "4", "7", "7", "5", "8", "0", "7">>,
          <<"9", "2", "2", "3", "3", "7", "2", "0", "3", "6",
            "8", "5", "4", "7", "7", "5", "8", "0", "8">>,
          <<"9", "9", "9", "9", "9", "9", "9", "9", "9", "9",
            "9", "9", "9", "9", "9", "9", "9", "9", "9", "9">> }}

NoCall == [fn |-> "none"]
PageInit ==
    /\ pgCall = NoCall
    /\ pgOut = NoCall

CallPaginated ==
    \E total \in Totals, page \in Pages, pageSize \in PageSizes :
        /\ pgCall = NoCall
        /\ pgCall' = [fn |-> "Paginated", total |-> total, page |-> page,
                      pageSize |-> pageSize]
        /\ pgOut' = Paginated("data", total, page, pageSize)
        /\ UNCHANGED <<connVars, httpVars, srvVars>>

CallCreatePaginationMeta ==
    \E total \in Totals, page \in Pages, pageSize \in PageSizes :
        /\ pgCall = NoCall
        /\ pgCall' = [fn |-> "CreatePaginationMeta", total |-> total, page |-> page,
                      pageSize |-> pageSize]
        /\ pgOut' = CreatePaginationMeta(total, page, pageSize)
        /\ UNCHANGED <<connVars, httpVars, srvVars>>

CallCalculateTotalPages ==
    \E total \in Totals, pageSize \in PageSizes :
        /\ pgCall = NoCall
        /\ pgCall' = [fn |-> "CalculateTotalPages", total |-> total,
                      pageSize |-> pageSize]
        /\ pgOut' = CalculateTotalPages(total, pageSize)
        /\ UNCHANGED <<connVars, httpVars, srvVars>>

CallGetPaginationParams ==
    \E page \in QueryValues, pageSize \in QueryValues :
        /\ pgCall = NoCall
        /\ pgCall' = [fn |-> "GetPaginationParams",
                      query |-> [page |-> page, page_size |-> pageSize]]
        /\ pgOut' = GetPaginationParams([page |-> page, page_size |-> pageSize])
        /\ UNCHANGED <<connVars, httpVars, srvVars>>

\* A handler validates the parameters GetPaginationParams gave it.
CallValidatePaginationParams ==
    /\ pgCall.fn = "GetPaginationParams"
    /\ pgCall' = [fn |-> "ValidatePaginationParams", query |-> pgCall.query,
                  page |-> pgOut.Page, pageSize |-> pgOut.PageSize]
    /\ pgOut' = ValidatePaginationParams(pgOut.Page, pgOut.PageSize)
    /\ UNCHANGED <<connVars, httpVars, srvVars>>

\* The handler that made the call is done with what it returned.
PageDone ==
    /\ pgCall # NoCall
    /\ pgCall' = NoCall
    /\ pgOut' = NoCall
    /\ UNCHANGED <<connVars, httpVars, srvVars>>

\* ------------------------------------------------------------------------
\* config: loading from the environment, validation
\* ------------------------------------------------------------------------

\* utils.GetEnv(key, fallback), for the value the environment holds for key
UnsetStr == [set |-> FALSE, val |-> ""]
EnvStr(v) == [set |-> TRUE, val |-> v]
GetEnv(value, fallback) == IF value.set THEN value.val ELSE fallback

EnvNames ==
    {"PORT", "SERVICE_NAME", "SERVICE_VERSION", "KEYCLOAK_URL", "KEYCLOAK_PUBLIC_KEY"}
EmptyEnv == [k \in EnvNames |-> UnsetStr]

\* parseDuration, in seconds: "1h" is what is returned for anything
\* time.ParseDuration rejects.
parseDuration(value) ==
    CASE value = "10s" -> 10
      [] value = "1h" -> 3600
      [] OTHER -> 3600

\* LoadDatabaseConfig with none of the POSTGRES_ variables set
LoadDatabaseConfig ==
    [Host |-> "localhost", Port |-> <<"5", "4", "3", "2">>, User |-> "postgres",
     Password |-> "postgres", DatabaseName |-> "defaultdb", MaxIdleConns |-> 10,
     MaxOpenConns |-> 100]

LoadKeycloakConfig(e) ==
    [URL |-> GetEnv(e["KEYCLOAK_URL"], ""),
     Realm |-> "master",
     PublicKeyBase64 |-> GetEnv(e["KEYCLOAK_PUBLIC_KEY"], ""),
     KeyRefreshInterval |-> parseDuration("1h"),
     HTTPTimeout |-> parseDuration("10s")]

LoadFromEnv(e) ==
    [Port |-> GetEnv(e["PORT"], "8000"),
     DatabaseConfig |-> LoadDatabaseConfig,
     KeycloakConfig |-> LoadKeycloakConfig(e),
     LogLevel |-> "info",
     Environment |-> "dev",
     ServiceName |-> GetEnv(e["SERVICE_NAME"], "microservice"),
     ServiceVersion |-> GetEnv(e["SERVICE_VERSION"], "1.0.0")]

LoadWithServiceInfo(e, serviceName, version) ==
    LET config == LoadFromEnv(e)
        named == IF config.ServiceName = "microservice"
                   THEN [config EXCEPT !.ServiceName = serviceName]
                   ELSE config
    IN  IF named.ServiceVersion = "1.0.0"
        THEN [named EXCEPT !.ServiceVersion = version]
        ELSE named

\* The Validate methods return an error message, "" for nil.
DatabaseConfigValidate(dc) ==
    IF dc.Host = "" THEN "database host is required"
    ELSE IF dc.Port = <<>> THEN "database port is required"
    ELSE IF Atoi(dc.Port).err # "nil" THEN "database port must be a number"
    ELSE IF dc.User = "" THEN "database user is required"
    ELSE IF dc.Password = "" THEN "database password is required"
    ELSE IF dc.DatabaseName = "" THEN "database name is required"
    ELSE IF dc.MaxIdleConns < 0 THEN "max idle connections cannot be negative"
    ELSE IF dc.MaxOpenConns < 0 THEN "max open connections cannot be negative"
    ELSE IF dc.MaxOpenConns > 0 /\ dc.MaxIdleConns > dc.MaxOpenConns
    THEN "max idle connections cannot exceed max open connections"
    ELSE ""

KeycloakConfigValidate(kc) ==
    LET hasStaticKey == kc.PublicKeyBase64 # ""
        hasJWKS == kc.URL # "" /\ kc.Realm # ""
    IN  IF ~hasStaticKey /\ ~hasJWKS
        THEN "keycloak config must provide either PublicKeyBase64 or both URL and Realm"
        ELSE IF kc.KeyRefreshInterval <= 0 THEN "key refresh interval must be positive"
        ELSE IF kc.HTTPTimeout <= 0 THEN "HTTP timeout must be positive"
        ELSE ""

ConfigValidate(c) ==
    IF c.Port = "" THEN "PORT is required"
    ELSE IF c.ServiceName = "" THEN "SERVICE_NAME is required"
    ELSE IF DatabaseConfigValidate(c.DatabaseConfig) # "" THEN "database config"
    ELSE IF KeycloakConfigValidate(c.KeycloakConfig) # "" THEN "keycloak config"
    ELSE ""

\* ------------------------------------------------------------------------
\* server: NewServer and the routes it registers
\* ------------------------------------------------------------------------

HealthPath == <<"/", "h", "e", "a", "l", "t", "h">>
DetailedSuffix == <<"/", "d", "e", "t", "a", "i", "l", "e", "d">>
ReadyPath == <<"/", "r", "e", "a", "d", "y">>
LivePath == <<"/", "l", "i", "v", "e">>
StatusPath == <<"/", "s", "t", "a", "t", "u", "s">>
TestPath == <<"/", "t", "e", "s", "t">>

\* ServerOptions: SetupRoutes is nil or the set of GET routes the function
\* registers, Config is NilConfig or a configuration.
NilConfig == [nil |-> TRUE]
GivenConfig(c) == [nil |-> FALSE, config |-> c]

ServerOptionsValidate(o) ==
    IF o.ServiceName = "" THEN "ServiceName is required"
    ELSE IF o.ServiceVersion = "" THEN "ServiceVersion is required"
    ELSE IF o.SetupRoutes.nil THEN "SetupRoutes function is required"
    ELSE ""

\* DefaultGracefulConfig, in seconds
DefaultGracefulConfig == [Timeout |-> 30, SignalTimeout |-> 5]

\* setupHealthRoutes: the routes it adds to the router
setupHealthRoutes(o) ==
    LET healthPath == IF o.HealthPath = <<>> THEN HealthPath ELSE o.HealthPath
    IN  {healthPath, healthPath \o DetailedSuffix}

setupDefaultRoutes(o) == IF ~o.DisableHealth THEN setupHealthRoutes(o) ELSE {}

NilServer == [nil |-> TRUE]
Panicked(message) == [panic |-> message, server |-> NilServer]

\* NewServer(options) in the environment e: the server, or the panic raised
NewServer(o, e) ==
    LET cfg == IF o.Config.nil
                 THEN LoadWithServiceInfo(e, o.ServiceName, o.ServiceVersion)
                 ELSE o.Config.config
    IN  IF ServerOptionsValidate(o) # "" THEN Panicked("Invalid server options")
        ELSE IF ConfigValidate(cfg) # "" THEN Panicked("Invalid configuration")
        ELSE [panic |-> "",
              server |-> [nil |-> FALSE,
                          router |-> [nil |-> FALSE,
                                      routes |-> setupDefaultRoutes(o) \cup o.SetupRoutes.routes],
                          config |-> cfg,
                          options |-> o,
                          Addr |-> IF o.Port = "" THEN cfg.Port ELSE o.Port,
                          shutdown |-> DefaultGracefulConfig]]

\* The router's answer to GET path: a registered handler answers 200, no
\* route is 404. The health handlers: "healthy" with the service's name.
ServeGet(server, path) ==
    IF path \notin server.router.routes
    THEN [status |-> 404, body |-> "404 page not found", service |-> ""]
    ELSE IF path \in setupDefaultRoutes(server.options)
    THEN [status |-> 200, body |-> "healthy", service |-> server.config.ServiceName]
    ELSE [status |-> 200, body |-> "test", service |-> ""]

\* The environments of the calls: each variable is unset or holds a value.
ConfigEnvironments ==
    {[PORT |-> p, SERVICE_NAME |-> n, SERVICE_VERSION |-> v, KEYCLOAK_URL |-> u,
      KEYCLOAK_PUBLIC_KEY |-> k] :
        p \in {UnsetStr, EnvStr("9000")},
        n \in {UnsetStr, EnvStr("microservice"), EnvStr("orders")},
        v \in {UnsetStr, EnvStr("1.0.0"), EnvStr("3.1.4")},
        u \in {UnsetStr, EnvStr("http://keycloak:8080")},
        k \in {UnsetStr, EnvStr("test-key")}}

\* The configuration of TestServerWithCustomConfig (fields that are not set
\* hold their zero values), and one with every field set.
TestCustomConfig ==
    [Port |-> "9999",
     DatabaseConfig |-> [Host |-> "localhost", Port |-> <<"5", "4", "3", "2">>,
                         User |-> "user", Password |-> "pass",
                         DatabaseName |-> "testdb", MaxIdleConns |-> 0,
                         MaxOpenConns |-> 0],
     KeycloakConfig |-> [URL |-> "", Realm |-> "", PublicKeyBase64 |-> "test-key",
                         KeyRefreshInterval |-> 0, HTTPTimeout |-> 0],
     LogLevel |-> "", Environment |-> "",
     ServiceName |-> "custom-service", ServiceVersion |-> "2.0.0"]
FullCustomConfig ==
    [TestCustomConfig EXCEPT !.KeycloakConfig.KeyRefreshInterval = parseDuration("1h"),
                             !.KeycloakConfig.HTTPTimeout = parseDuration("10s")]

ServerOptionsValues ==
    [ServiceName : {"", "my-service"},
     ServiceVersion : {"", "2.0.0"},
     SetupRoutes : {[nil |-> TRUE], [nil |-> FALSE, routes |-> {}],
                    [nil |-> FALSE, routes |-> {TestPath}]},
     Config : {NilConfig, GivenConfig(TestCustomConfig), GivenConfig(FullCustomConfig)},
     Port : {""},
     DisableHealth : BOOLEAN,
     HealthPath : {<<>>, StatusPath}]

RequestPaths ==
    {HealthPath, HealthPath \o DetailedSuffix, ReadyPath, LivePath, StatusPath,
     StatusPath \o DetailedSuffix, TestPath}

NoSrvCall == [fn |-> "none"]
NoServer == [panic |-> "", server |-> NilServer]
SrvInit ==
    /\ osEnv = EmptyEnv
    /\ srvCall = NoSrvCall
    /\ srv = NoServer
    /\ srvResp = NoSrvCall

\* ------------------------------------------------------------------------
\* server: Start, Stop and the graceful shutdown
\* ------------------------------------------------------------------------

\* setupGracefulShutdown(server), the manager of every Server, and
\* NewShutdownManager(server, config) with a configuration of the caller.
NewShutdownManager(config) == [config |-> config]
setupGracefulShutdown == NewShutdownManager(DefaultGracefulConfig)
ShutdownManagers ==
    {setupGracefulShutdown, NewShutdownManager([Timeout |-> 5, SignalTimeout |-> 1])}

\* The signals the process may get. signal.Notify registers SIGINT and
\* SIGTERM; a signal that is not registered has its default effect, which ends
\* the process for each of the three.
Signals == {"SIGINT", "SIGTERM", "SIGHUP"}
NotifiedSignals == {"SIGINT", "SIGTERM"}

\* quit := make(chan os.Signal, 1)
QuitCapacity == 1

\* context.WithTimeout(context.Background(), sm.config.Timeout)
ShutdownContextWithSignalTimeout(manager) == [timeout |-> manager.config.SignalTimeout]
ShutdownContext(manager) == [timeout |-> manager.config.Timeout]

NoShutdown == [sig |-> "none", calls |-> <<>>, expired |-> FALSE, returned |-> "none"]

LifeInit ==
    /\ lifeCall = "none"
    /\ sm = setupGracefulShutdown
    /\ mainPc = "idle"
    /\ servePc = "none"
    /\ quit = [notified |-> FALSE, buf |-> <<>>]
    /\ httpServer = [state |-> "new", inflight |-> 0]
    /\ proc = "running"
    /\ shutdownLog = NoShutdown

\* srv.Start(): StartWithGracefulShutdown starts the goroutine that runs
\* ListenAndServe and goes on into WaitForShutdown.
CallStart ==
    /\ lifeCall = "none"
    /\ lifeCall' = "Start"
    /\ \E manager \in ShutdownManagers : sm' = manager
    /\ mainPc' = "notify"
    /\ servePc' = "spawned"
    /\ UNCHANGED <<quit, httpServer, proc, shutdownLog, cfgVars, dbVars, connVars, httpVars, pageVars>>

\* srv.Stop(), on a server that is not serving or on one whose http.Server
\* (GetHTTPServer) a goroutine of the caller serves, with requests in flight
\* or without.
CallStop ==
    /\ lifeCall = "none"
    /\ lifeCall' = "Stop"
    /\ \E manager \in ShutdownManagers : sm' = manager
    /\ mainPc' = "notify"
    /\ \/ UNCHANGED <<servePc, httpServer>>
       \/ /\ servePc' = "serving"
          /\ \E n \in 0 .. MaxInflight :
                httpServer' = [state |-> "listening", inflight |-> n]
    /\ UNCHANGED <<quit, proc, shutdownLog, cfgVars, dbVars, connVars, httpVars, pageVars>>

\* sm.server.ListenAndServe() in the goroutine: it listens, or it fails. After
\* Shutdown it returns http.ErrServerClosed at once; another error ends the
\* process with os.Exit(1).
ListenAndServe ==
    /\ proc = "running"
    /\ servePc = "spawned"
    /\ IF httpServer.state = "new"
       THEN \/ /\ httpServer' = [httpServer EXCEPT !.state = "listening"]
               /\ servePc' = "serving"
               /\ UNCHANGED proc
            \/ /\ proc' = "exited"
               /\ UNCHANGED <<httpServer, servePc>>
       ELSE /\ servePc' = "returned"
            /\ UNCHANGED <<httpServer, proc>>
    /\ UNCHANGED <<lifeCall, sm, mainPc, quit, shutdownLog, cfgVars, dbVars, connVars, httpVars, pageVars>>

\* ListenAndServe returns http.ErrServerClosed once Shutdown has closed the
\* listener; the goroutine ends.
ServeReturns ==
    /\ proc = "running"
    /\ servePc = "serving"
    /\ httpServer.state \in {"shutdown", "closed"}
    /\ servePc' = "returned"
    /\ UNCHANGED <<lifeCall, sm, mainPc, quit, httpServer, proc, shutdownLog,
                   cfgVars, dbVars, connVars, httpVars, pageVars>>

\* A client sends a request to the listening server; a request in flight is
\* answered.
RequestArrives ==
    /\ proc = "running"
    /\ httpServer.state = "listening"
    /\ httpServer.inflight < MaxInflight
    /\ httpServer' = [httpServer EXCEPT !.inflight = @ + 1]
    /\ UNCHANGED <<lifeCall, sm, mainPc, servePc, quit, proc, shutdownLog,
                   cfgVars, dbVars, connVars, httpVars, pageVars>>

RequestDone ==
    /\ proc = "running"
    /\ httpServer.inflight > 0
    /\ httpServer' = [httpServer EXCEPT !.inflight = @ - 1]
    /\ UNCHANGED <<lifeCall, sm, mainPc, servePc, quit, proc, shutdownLog,
                   cfgVars, dbVars, connVars, httpVars, pageVars>>

\* WaitForShutdown: quit := make(chan os.Signal, 1); signal.Notify(quit,
\* syscall.SIGINT, syscall.SIGTERM)
Notify ==
    /\ proc = "running"
    /\ mainPc = "notify"
    /\ quit' = [notified |-> TRUE, buf |-> <<>>]
    /\ mainPc' = "wait"
    /\ UNCHANGED <<lifeCall, sm, servePc, httpServer, proc, shutdownLog,
                   cfgVars, dbVars, connVars, httpVars, pageVars>>

\* The process gets a signal. A registered one is sent to quit without
\* blocking (it is dropped when the channel is full); any other ends the
\* process.
Signal ==
    /\ proc = "running"
    /\ lifeCall # "none"
    /\ \E s \in Signals :
          IF quit.notified /\ s \in NotifiedSignals
          THEN /\ quit' = IF Len(quit.buf) < QuitCapacity
                          THEN [quit EXCEPT !.buf = Append(@, s)] ELSE quit
               /\ UNCHANGED proc
          ELSE /\ proc' = "killed"
               /\ UNCHANGED quit
    /\ UNCHANGED <<lifeCall, sm, mainPc, servePc, httpServer, shutdownLog,
                   cfgVars, dbVars, connVars, httpVars, pageVars>>

\* sig := <-quit; ctx := context.WithTimeout(...); sm.server.Shutdown(ctx)
\* is called: it closes the listener and waits for the requests in flight.
ReceiveSignal ==
    /\ proc = "running"
    /\ mainPc = "wait"
    /\ quit.buf # <<>>
    /\ quit' = [quit EXCEPT !.buf = Tail(@)]
    /\ shutdownLog' = [shutdownLog EXCEPT !.sig = Head(quit.buf),
                                          !.calls = Append(@, ShutdownContext(sm))]
    /\ httpServer' = [httpServer EXCEPT !.state = "shutdown"]
    /\ mainPc' = "shutdown"
    /\ UNCHANGED <<lifeCall, sm, servePc, proc, cfgVars, dbVars, connVars, httpVars, pageVars>>

\* Shutdown returns nil: no request is in flight any more.
ShutdownCompletes ==
    /\ proc = "running"
    /\ mainPc = "shutdown"
    /\ httpServer.inflight = 0
    /\ httpServer' = [httpServer EXCEPT !.state = "closed"]
    /\ shutdownLog' = [shutdownLog EXCEPT !.returned = "nil"]
    /\ mainPc' = "returned"
    /\ UNCHANGED <<lifeCall, sm, servePc, quit, proc, cfgVars, dbVars, connVars, httpVars, pageVars>>

\* The context expires while requests are in flight: Shutdown returns its
\* error, WaitForShutdown wraps it.
ContextExpires ==
    /\ proc = "running"
    /\ mainPc = "shutdown"
    /\ httpServer.inflight > 0
    /\ shutdownLog' = [shutdownLog EXCEPT !.expired = TRUE,
                                          !.returned = "server forced to shutdown"]
    /\ mainPc' = "returned"
    /\ UNCHANGED <<lifeCall, sm, servePc, quit, httpServer, proc,
                   cfgVars, dbVars, connVars, httpVars, pageVars>>

\* The method has returned to main, which ends, or the process was ended: the
\* next run of the service begins.
LifeDone ==
    /\ mainPc = "returned" \/ proc # "running"
    /\ lifeCall' = "none"
    /\ sm' = setupGracefulShutdown
    /\ mainPc' = "idle"
    /\ servePc' = "none"
    /\ quit' = [notified |-> FALSE, buf |-> <<>>]
    /\ httpServer' = [state |-> "new", inflight |-> 0]
    /\ proc' = "running"
    /\ shutdownLog' = NoShutdown
    /\ UNCHANGED <<cfgVars, dbVars, connVars, httpVars, pageVars>>

\* srv := server.NewServer(options)
CallNewServer ==
    /\ srvCall = NoSrvCall
    /\ \E e \in ConfigEnvironments, o \in ServerOptionsValues :
          /\ osEnv' = e
          /\ srvCall' = [fn |-> "NewServer", options |-> o]
          /\ srv' = NewServer(o, e)
    /\ UNCHANGED <<srvResp, lifeVars, dbVars, connVars, httpVars, pageVars>>

\* srv.GetRouter().ServeHTTP(w, GET path)
ServeRequest ==
    /\ srvCall.fn = "NewServer"
    /\ ~srv.server.nil
    /\ \E path \in RequestPaths :
          /\ srvCall' = [fn |-> "GET", path |-> path]
          /\ srvResp' = ServeGet(srv.server, path)
    /\ UNCHANGED <<osEnv, srv, lifeVars, dbVars, connVars, httpVars, pageVars>>

\* config.LoadWithServiceInfo(serviceName, version)
CallLoadWithServiceInfo ==
    /\ srvCall = NoSrvCall
    /\ \E e \in ConfigEnvironments, name \in {"my-service"}, version \in {"2.0.0"} :
          /\ osEnv' = e
          /\ srvCall' = [fn |-> "LoadWithServiceInfo", serviceName |-> name,
                         version |-> version]
          /\ srvResp' = LoadWithServiceInfo(e, name, version)
    /\ UNCHANGED <<srv, lifeVars, dbVars, connVars, httpVars, pageVars>>

\* The test is over: the server is dropped and the environment is cleared.
SrvDone ==
    /\ srvCall # NoSrvCall
    /\ osEnv' = EmptyEnv
    /\ srvCall' = NoSrvCall
    /\ srv' = NoServer
    /\ srvResp' = NoSrvCall
    /\ UNCHANGED <<lifeVars, dbVars, connVars, httpVars, pageVars>>

\* ------------------------------------------------------------------------
\* database: migrations
\* ------------------------------------------------------------------------

MigrationOptionsDroppingTables ==
    [DropTables |-> TRUE, CreateIndexes |-> TRUE, Verbose |-> TRUE]
DefaultMigrationOptions == [DropTables |-> FALSE, CreateIndexes |-> TRUE, Verbose |-> TRUE]

\* The options of the migrators: every combination of DropTables and
\* CreateIndexes; Verbose only decides what is printed.
MigrationOptions == [DropTables : BOOLEAN, CreateIndexes : BOOLEAN, Verbose : {TRUE}]

NoMigrator == [nil |-> TRUE]
NewMigrator(options) == [nil |-> FALSE, options |-> options, models |-> <<>>]
AddModels(m, models) == [m EXCEPT !.models = m.models \o models]

\* An operation issued to the database: by which function, in which of the
\* migrations, under which options.
DbOp(op, models, fn, m, call) ==
    [op |-> op, models |-> models, fn |-> fn, options |-> m.options, call |-> call]

\* Migrator.Migrate, the call-th migration: the operations it issues and the
\* error it returns. An error of DropTable is printed and ignored, one of
\* AutoMigrate (autoMigrateFails) is returned, one of Exec is printed.
Migrate(m, fn, call, autoMigrateFails) ==
    IF Len(m.models) = 0
    THEN [err |-> "no models to migrate", ops |-> <<>>]
    ELSE LET drops == IF m.options.DropTables
                      THEN [i \in 1 .. Len(m.models) |->
                               DbOp("DropTable", <<m.models[i]>>, fn, m, call)]
                      ELSE <<>>
             auto == <<DbOp("AutoMigrate", m.models, fn, m, call)>>
             indexes == IF m.options.CreateIndexes
                        THEN <<DbOp("Exec", <<>>, fn, m, call)>> ELSE <<>>
         IN  IF autoMigrateFails
             THEN [err |-> "migration failed", ops |-> drops \o auto]
             ELSE [err |-> "nil", ops |-> drops \o auto \o indexes]

QuickMigrate(models, call, autoMigrateFails) ==
    Migrate(AddModels(NewMigrator(DefaultMigrationOptions), models),
            "QuickMigrate", call, autoMigrateFails)

UnsafeMigrate(models, call, autoMigrateFails) ==
    LET options == [DropTables |-> TRUE, CreateIndexes |-> TRUE, Verbose |-> TRUE]
    IN  Migrate(AddModels(NewMigrator(options), models),
                "UnsafeMigrate", call, autoMigrateFails)

\* The models of the service, &Model1{}, &Model2{}, ..., are passed in this
\* order.
ModelLists == {[i \in 1 .. n |-> i] : n \in 0 .. MaxModels}
ModelsAfter(held) == {[i \in 1 .. n |-> Len(held) + i] : n \in 0 .. (MaxModels - Len(held))}

NoDbCall == [fn |-> "none"]
MigInit ==
    /\ dbCall = NoDbCall
    /\ migrator = NoMigrator
    /\ migrations = 0
    /\ dbLog = <<>>
    /\ dbOut = "none"

\* migrator := database.NewMigrator(db, options)
CallNewMigrator ==
    /\ migrator = NoMigrator
    /\ \E options \in MigrationOptions :
          /\ migrator' = NewMigrator(options)
          /\ dbCall' = [fn |-> "NewMigrator"]
    /\ UNCHANGED <<migrations, dbLog, dbOut, checkVars, cfgVars, lifeVars,
                   connVars, httpVars, pageVars>>

\* migrator.AddModels(models...)
CallAddModels ==
    /\ migrator # NoMigrator
    /\ \E models \in ModelsAfter(migrator.models) :
          /\ migrator' = AddModels(migrator, models)
          /\ dbCall' = [fn |-> "AddModels"]
    /\ UNCHANGED <<migrations, dbLog, dbOut, checkVars, cfgVars, lifeVars,
                   connVars, httpVars, pageVars>>

\* What a migration leaves: its operations in the log, its error returned.
Migrated(result) ==
    /\ migrations' = migrations + 1
    /\ dbLog' = dbLog \o result.ops
    /\ dbOut' = result.err

\* migrator.Migrate()
CallMigrate ==
    /\ migrator # NoMigrator
    /\ migrations < MaxMigrations
    /\ \E fails \in BOOLEAN : Migrated(Migrate(migrator, "Migrate", migrations + 1, fails))
    /\ dbCall' = [fn |-> "Migrate"]
    /\ UNCHANGED <<migrator, checkVars, cfgVars, lifeVars, connVars, httpVars, pageVars>>

\* database.QuickMigrate(db, models...)
CallQuickMigrate ==
    /\ migrations < MaxMigrations
    /\ \E models \in ModelLists, fails \in BOOLEAN :
          /\ Migrated(QuickMigrate(models, migrations + 1, fails))
          /\ dbCall' = [fn |-> "QuickMigrate"]
    /\ UNCHANGED <<migrator, checkVars, cfgVars, lifeVars, connVars, httpVars, pageVars>>

\* database.UnsafeMigrate(db, models...)
CallUnsafeMigrate ==
    /\ migrations < MaxMigrations
    /\ \E models \in ModelLists, fails \in BOOLEAN :
          /\ Migrated(UnsafeMigrate(models, migrations + 1, fails))
          /\ dbCall' = [fn |-> "UnsafeMigrate"]
    /\ UNCHANGED <<migrator, checkVars, cfgVars, lifeVars, connVars, httpVars, pageVars>>

\* The service has set up its database.
MigDone ==
    /\ dbCall # NoDbCall
    /\ dbCall' = NoDbCall
    /\ migrator' = NoMigrator
    /\ migrations' = 0
    /\ dbLog' = <<>>
    /\ dbOut' = "none"
    /\ UNCHANGED <<checkVars, cfgVars, lifeVars, connVars, httpVars, pageVars>>

\* ------------------------------------------------------------------------
\* database: HealthChecker.Check
\* ------------------------------------------------------------------------

\* The *pgconnect.DB of the checker: nil, or a handle New returned.
OpenDB == [conn |-> 1]

\* NewHealthChecker(db), and SetTimeout(timeout) in seconds
DefaultCheckTimeout == 5
NewHealthChecker(db) == [db |-> db, timeout |-> DefaultCheckTimeout]
SetTimeout(checker, timeout) == [checker EXCEPT !.timeout = timeout]

\* HealthStatus; Timestamp is the time of the call (never the zero time) or
\* the zero time of a HealthStatus{} that was not filled in.
HealthStatusOf(err) ==
    [Status |-> IF err # "" THEN "unhealthy" ELSE "healthy",
     Database |-> "postgres", Error |-> err, Timestamp |-> "now"]

\* What the query goroutine sends to done: the error of Scan, and the value
\* of result.
QueryOutcomes ==
    {[err |-> "", result |-> 1], [err |-> "", result |-> 0],
     [err |-> "", result |-> 2], [err |-> "connection refused", result |-> 0],
     [err |-> "context deadline exceeded", result |-> 0]}

\* performCheck after the receive from done
QueryError(outcome) ==
    IF outcome.err # "" THEN "query failed"
    ELSE IF outcome.result # 1 THEN "unexpected query result"
    ELSE ""

NoOutcome == [err |-> "none", result |-> 0]
NoStatus == [Status |-> "none", Database |-> "", Error |-> "", Timestamp |-> "zero"]
NoCheck == [ping |-> "none", query |-> NoOutcome, chose |-> "none", returned |-> NoStatus]
CheckInit ==
    /\ hc = NewHealthChecker(NilDB)
    /\ hcPc = "idle"
    /\ done = <<>>
    /\ ctxDone = FALSE
    /\ checkLog = NoCheck

\* checker.Check(), for a checker of any handle and timeout: it notes the
\* time, creates the context (expired at once for a timeout of 0) and calls
\* performCheck.
CallCheck ==
    /\ hcPc = "idle"
    /\ \E db \in {NilDB, OpenDB}, timeout \in {0, 1, DefaultCheckTimeout, 30} :
          /\ hc' = SetTimeout(NewHealthChecker(db), timeout)
          /\ ctxDone' = (timeout = 0)
    /\ hcPc' = "ping"
    /\ done' = <<>>
    /\ checkLog' = NoCheck
    /\ UNCHANGED <<migVars, cfgVars, lifeVars, connVars, httpVars, pageVars>>

\* The deadline of the context passes.
CtxExpires ==
    /\ hcPc \in {"ping", "select"}
    /\ ~ctxDone
    /\ ctxDone' = TRUE
    /\ UNCHANGED <<hc, hcPc, done, checkLog, migVars, cfgVars, lifeVars,
                   connVars, httpVars, pageVars>>

\* hc.db.Ping() on a handle: it fails (Check returns), or it succeeds and
\* performCheck starts the goroutine of the query.
Ping ==
    /\ hcPc = "ping"
    /\ hc.db # NilDB
    /\ \/ /\ checkLog' = [checkLog EXCEPT !.ping = "failed",
                             !.returned = HealthStatusOf("ping failed")]
          /\ hcPc' = "returned"
       \/ /\ checkLog' = [checkLog EXCEPT !.ping = "ok"]
          /\ hcPc' = "select"
    /\ UNCHANGED <<hc, done, ctxDone, migVars, cfgVars, lifeVars,
                   connVars, httpVars, pageVars>>

\* hc.db.Ping() on the nil handle. Ping is a method of pgconnect.DB, whose
\* source is not part of the repository: it reads a field of its receiver and
\* panics with a nil pointer dereference, or it tests the receiver and
\* returns an error.
PingNil ==
    /\ hcPc = "ping"
    /\ hc.db = NilDB
    /\ \/ /\ checkLog' = [checkLog EXCEPT !.ping = "panic"]
          /\ hcPc' = "panicked"
       \/ /\ checkLog' = [checkLog EXCEPT !.ping = "failed",
                             !.returned = HealthStatusOf("ping failed")]
          /\ hcPc' = "returned"
    /\ UNCHANGED <<hc, done, ctxDone, migVars, cfgVars, lifeVars,
                   connVars, httpVars, pageVars>>

\* The goroutine: hc.db.DB.WithContext(ctx).Raw(query).Scan(&result), then
\* done <- err. The channel has room for the value, so the goroutine ends
\* also when nobody receives.
QueryReturns ==
    /\ hcPc \in {"select", "returned"}
    /\ checkLog.ping = "ok"
    /\ checkLog.query = NoOutcome
    /\ \E outcome \in QueryOutcomes :
          /\ outcome.err = "context deadline exceeded" => ctxDone
          /\ done' = <<outcome>>
          /\ checkLog' = [checkLog EXCEPT !.query = outcome]
    /\ UNCHANGED <<hc, hcPc, ctxDone, migVars, cfgVars, lifeVars,
                   connVars, httpVars, pageVars>>

\* select: case err := <-done
SelectDone ==
    /\ hcPc = "select"
    /\ done # <<>>
    /\ done' = <<>>
    /\ checkLog' = [checkLog EXCEPT !.chose = "done",
                       !.returned = HealthStatusOf(QueryError(Head(done)))]
    /\ hcPc' = "returned"
    /\ UNCHANGED <<hc, ctxDone, migVars, cfgVars, lifeVars, connVars, httpVars, pageVars>>

\* select: case <-ctx.Done()
SelectCtxDone ==
    /\ hcPc = "select"
    /\ ctxDone
    /\ checkLog' = [checkLog EXCEPT !.chose = "ctx",
                       !.returned = HealthStatusOf("health check timeout")]
    /\ hcPc' = "returned"
    /\ UNCHANGED <<hc, done, ctxDone, migVars, cfgVars, lifeVars,
                   connVars, httpVars, pageVars>>

\* The caller has its status, or the panic has ended the test.
CheckDone ==
    /\ hcPc \in {"returned", "panicked"}
    /\ hc' = NewHealthChecker(NilDB)
    /\ hcPc' = "idle"
    /\ done' = <<>>
    /\ ctxDone' = FALSE
    /\ checkLog' = NoCheck
    /\ UNCHANGED <<migVars, cfgVars, lifeVars, connVars, httpVars, pageVars>>

ConnectStep == AttemptSucceeds \/ AttemptFails \/ SleepDone \/ ReturnError

Init == ConnInit /\ HttpInit /\ PageInit /\ SrvInit /\ LifeInit /\ MigInit /\ CheckInit

\* The connection manager.
Next == ConnectCall \/ AttemptSucceeds \/ AttemptFails \/ SleepDone \/ ReturnError

Spec == Init /\ [][Next]_vars

\* An engine with the authentication middleware in front of a route handler.
NextAuth == ReceiveAuth \/ RunAuth \/ RunHandler \/ Respond

SpecAuth == Init /\ [][NextAuth]_vars

\* An engine with the request ID middleware in front of route handlers that
\* answer through the responses package.
NextResp == ReceiveResp \/ RunRequestID \/ RunApp \/ RunHandler \/ Respond

SpecResp == Init /\ [][NextResp]_vars

\* Handlers that compute pagination metadata.
NextMeta ==
    CallPaginated \/ CallCreatePaginationMeta \/ CallCalculateTotalPages \/ PageDone

SpecMeta == Init /\ [][NextMeta]_vars

\* Handlers that read the pagination parameters of a request.
NextParams == CallGetPaginationParams \/ CallValidatePaginationParams \/ PageDone

SpecParams == Init /\ [][NextParams]_vars

\* An engine with the recovery middleware in front of handlers that may panic.
NextRec ==
    \/ ReceiveRec \/ RunRecovery \/ RunRequestID \/ RunApp \/ RunAppPanic
    \/ RunHandler \/ Recover \/ Propagate \/ Respond

SpecRec == Init /\ [][NextRec]_vars

\* An engine with NewRequestIDMiddleware(config).
NextRequestIDConfig ==
    ReceiveRequestIDConfig \/ RunRequestIDConfig \/ RunHandler \/ Respond

SpecRequestIDConfig == Init /\ [][NextRequestIDConfig]_vars

\* An engine with NewAuthMiddleware(config).
NextAuthConfig == ReceiveAuthConfig \/ RunAuthConfig \/ RunHandler \/ Respond

SpecAuthConfig == Init /\ [][NextAuthConfig]_vars

\* A route group with a role check.
NextRole ==
    ReceiveRole \/ RunAuth \/ RunSetRoles \/ RunRequireRole \/ RunHandler \/ Respond

SpecRole == Init /\ [][NextRole]_vars

\* An engine with OptionalAuth.
NextOptionalAuth == ReceiveOptionalAuth \/ RunOptionalAuth \/ RunHandler \/ Respond

SpecOptionalAuth == Init /\ [][NextOptionalAuth]_vars

\* An engine with the health middleware.
NextHealth == ReceiveHealth \/ RunRequestID \/ RunHealth \/ RunHandler \/ Respond

SpecHealth == Init /\ [][NextHealth]_vars

\* Programs that load the configuration and build a server.
NextSrv == CallNewServer \/ ServeRequest \/ CallLoadWithServiceInfo \/ SrvDone

SpecSrv == Init /\ [][NextSrv]_vars

\* A service that starts its server, or stops it, and the signals it gets.
NextLife ==
    \/ CallStart \/ CallStop \/ ListenAndServe \/ ServeReturns
    \/ RequestArrives \/ RequestDone \/ Notify \/ Signal \/ ReceiveSignal
    \/ ShutdownCompletes \/ ContextExpires \/ LifeDone

SpecLife == Init /\ [][NextLife]_vars

\* The goroutines of the process are scheduled and its requests are answered
\* or time out; nothing obliges the environment to send a signal or a request.
LifeStep ==
    \/ ListenAndServe \/ ServeReturns \/ Notify \/ ReceiveSignal
    \/ ShutdownCompletes \/ ContextExpires

FairSpecLife == SpecLife /\ WF_vars(LifeStep)

\* A service that migrates its database.
NextMig ==
    \/ CallNewMigrator \/ CallAddModels \/ CallMigrate \/ CallQuickMigrate
    \/ CallUnsafeMigrate \/ MigDone

SpecMig == Init /\ [][NextMig]_vars

\* Health checks of the database.
NextCheck ==
    \/ CallCheck \/ CtxExpires \/ Ping \/ PingNil \/ QueryReturns \/ SelectDone
    \/ SelectCtxDone \/ CheckDone

SpecCheck == Init /\ [][NextCheck]_vars

\* A running call is never suspended: the goroutine executing Connect keeps
\* being scheduled until Connect returns.
FairSpec == Spec /\ WF_vars(ConnectStep)

\* ------------------------------------------------------------------------
\* Properties of the pagination functions
\* ------------------------------------------------------------------------

\* n is ceil(total/pageSize): the least n with n * pageSize >= total
IsCeil(n, total, pageSize) ==
    /\ ~Less(Times(n, pageSize), total)
    /\ n = <<>> \/ Less(Times(Minus1(n), pageSize), total)

MetaCalled == pgCall.fn \in {"Paginated", "CreatePaginationMeta", "CalculateTotalPages"}

\* What the last call reported, whichever of the three functions it was.
Reported ==
    IF pgCall.fn = "Paginated"
    THEN [Total |-> pgOut.body.total, Page |-> pgOut.body.page,
          PageSize |-> pgOut.body.page_size, TotalPages |-> pgOut.body.total_pages,
          HasNext |-> pgOut.body.has_next, HasPrev |-> pgOut.body.has_prev]
    ELSE IF pgCall.fn = "CreatePaginationMeta" THEN pgOut
    ELSE [Total |-> pgCall.total, Page |-> IntOf(0), PageSize |-> IntOf(pgCall.pageSize),
          TotalPages |-> pgOut, HasNext |-> FALSE, HasPrev |-> FALSE]

\* C7: for every total >= 0, pageSize >= 1 and page, Paginated,
\* CreatePaginationMeta and CalculateTotalPages report total_pages =
\* ceil(total/pageSize), the least n with n * pageSize >= total, and the first
\* two report has_next = (page < total_pages), has_prev = (page > 1) and
\* total, page and page_size as they were given.
C7_PaginationMeta ==
    MetaCalled =>
        /\ ~Reported.TotalPages.neg
        /\ IsCeil(Reported.TotalPages.mag, pgCall.total.mag, pgCall.pageSize)
        /\ pgCall.fn # "CalculateTotalPages" =>
              /\ Reported.HasNext = IntLess(IntOf(pgCall.page), Reported.TotalPages)
              /\ Reported.HasPrev = (pgCall.page > 1)
              /\ Reported.Total = pgCall.total
              /\ Reported.Page = IntOf(pgCall.page)
              /\ Reported.PageSize = IntOf(pgCall.pageSize)

\* The same for the totals that float64 holds exactly (up to 2^53).
C7_UpToFloat64Precision ==
    (MetaCalled /\ ~Less(Pow2(Float64Precision), pgCall.total.mag)) =>
        /\ ~Reported.TotalPages.neg
        /\ IsCeil(Reported.TotalPages.mag, pgCall.total.mag, pgCall.pageSize)
        /\ pgCall.fn # "CalculateTotalPages" =>
              /\ Reported.HasNext = IntLess(IntOf(pgCall.page), Reported.TotalPages)
              /\ Reported.HasPrev = (pgCall.page > 1)
              /\ Reported.Total = pgCall.total
              /\ Reported.Page = IntOf(pgCall.page)
              /\ Reported.PageSize = IntOf(pgCall.pageSize)

\* What a query parameter asks for: nothing when it is absent, empty or not a
\* number that int holds.
Asked(param) ==
    IF ~param.present \/ param.value = <<>> \/ Atoi(param.value).err # "nil"
    THEN [given |-> FALSE, value |-> IntOf(0)]
    ELSE [given |-> TRUE, value |-> Atoi(param.value).value]

ExpectedPage(param) ==
    IF ~Asked(param).given \/ IntLess(Asked(param).value, IntOf(1)) THEN IntOf(1)
    ELSE Asked(param).value

ExpectedPageSize(param) ==
    IF ~Asked(param).given \/ IntLess(Asked(param).value, IntOf(1)) THEN IntOf(10)
    ELSE IF IntLess(IntOf(100), Asked(param).value) THEN IntOf(100)
    ELSE Asked(param).value

\* The parts of C8 about Page, PageSize and Limit.
ParamsInRange(params, query) ==
    /\ params.Page = ExpectedPage(query.page)
    /\ params.PageSize = ExpectedPageSize(query.page_size)
    /\ ~IntLess(params.Page, IntOf(1))
    /\ ~IntLess(params.PageSize, IntOf(1))
    /\ ~IntLess(IntOf(100), params.PageSize)
    /\ params.Limit = params.PageSize

\* C8: for every query string GetPaginationParams returns Page >= 1,
\* 1 <= PageSize <= 100, Limit = PageSize and Offset = (Page-1)*PageSize, where
\* an absent, non-numeric or < 1 parameter becomes the default (page 1,
\* page_size 10) and a page_size > 100 becomes 100; ValidatePaginationParams
\* applied to the result returns no error.
C8_PaginationParams ==
    /\ pgCall.fn = "GetPaginationParams" =>
          /\ ParamsInRange(pgOut, pgCall.query)
          /\ ~pgOut.Offset.neg
          /\ pgOut.Offset.mag = Times(Minus1(pgOut.Page.mag), ToNat(pgOut.PageSize.mag))
    /\ pgCall.fn = "ValidatePaginationParams" => pgOut = NoAPIError

\* The same without the equation for Offset.
C8_ExceptOffset ==
    /\ pgCall.fn = "GetPaginationParams" => ParamsInRange(pgOut, pgCall.query)
    /\ pgCall.fn = "ValidatePaginationParams" => pgOut = NoAPIError

\* The equation for Offset, for the pages up to MaxQueryInt.
C8_OffsetOfSmallPage ==
    (pgCall.fn = "GetPaginationParams" /\ ~Less(FromNat(MaxQueryInt), pgOut.Page.mag)) =>
        /\ ~pgOut.Offset.neg
        /\ pgOut.Offset.mag = Times(Minus1(pgOut.Page.mag), ToNat(pgOut.PageSize.mag))

\* ------------------------------------------------------------------------
\* Properties of Connect
\* ------------------------------------------------------------------------

IsAttempt(e) == e.kind = "attempt"
IsSleep(e) == e.kind = "sleep"
IsFailed(e) == e.kind = "attempt" /\ ~e.ok
Attempts == SelectSeq(events, IsAttempt)
Sleeps == SelectSeq(events, IsSleep)
FailedAttempts == SelectSeq(events, IsFailed)
InConnect == cPc \in {"loop", "sleep", "returned"}
Running == cPc \in {"loop", "sleep"}
Returned == cPc = "returned"

\* C1: with N = DB_MAX_RETRIES (default 3) and N >= 1, the attempts made are
\* numbered 1, 2, ... one after the other and never number more than N; only
\* the last attempt made can have succeeded, and then Connect has returned its
\* connection without error; Connect returns nil and an error only when
\* exactly N attempts were made and all of them failed.
C1_BoundedRetry ==
    (InConnect /\ maxRetries >= 1) =>
        /\ maxRetries = (IF env.retries.set THEN env.retries.val ELSE 3)
        /\ Len(Attempts) <= maxRetries
        /\ \A i \in 1 .. Len(Attempts) : Attempts[i].n = i
        /\ \A i \in 1 .. Len(Attempts) - 1 : ~Attempts[i].ok
        /\ (\E i \in 1 .. Len(Attempts) : Attempts[i].ok) =>
               (Returned /\ cRet.err = NoError)
        /\ (Returned /\ cRet.err = NoError) =>
               /\ Len(Attempts) >= 1
               /\ Attempts[Len(Attempts)].ok
               /\ cRet.db = Conn(Len(Attempts))
               /\ cRet.db # NilDB
        /\ (Returned /\ cRet.err # NoError) =>
               /\ cRet.db = NilDB
               /\ Len(Attempts) = maxRetries
               /\ \A i \in 1 .. Len(Attempts) : ~Attempts[i].ok

\* Connect has returned an error after three failed attempts (the default N).
C1_Witness ==
    /\ Returned
    /\ ~env.retries.set
    /\ cRet.err # NoError
    /\ Len(Attempts) = 3

\* C2: every sleep directly follows a failed attempt, lasts retryDelay
\* (DB_RETRY_DELAY_SECONDS, default 30) and is followed by the next attempt;
\* a call that returns a connection after k failed attempts has slept k
\* times, a call whose N >= 1 attempts all failed has slept N - 1 times.
C2_SleepBetweenAttempts ==
    (InConnect /\ maxRetries >= 1) =>
        /\ retryDelay = (IF env.delay.set THEN env.delay.val ELSE 30)
        /\ \A i \in 1 .. Len(events) :
              IsSleep(events[i]) =>
                /\ i > 1
                /\ IsFailed(events[i - 1])
                /\ events[i].dur = retryDelay
                /\ IF i < Len(events)
                     THEN IsAttempt(events[i + 1])
                     ELSE cPc = "loop" /\ attempt <= maxRetries
        /\ (Returned /\ cRet.err = NoError) =>
               Len(Sleeps) = Len(FailedAttempts)
        /\ (Returned /\ cRet.err # NoError) =>
               Len(Sleeps) = maxRetries - 1

\* Connect has returned a connection after two failed attempts and two sleeps
\* of the default 30 seconds.
C2_Witness ==
    /\ Returned
    /\ cRet.err = NoError
    /\ ~env.delay.set
    /\ Len(FailedAttempts) = 2
    /\ Len(Sleeps) = 2
    /\ \A i \in 1 .. 2 : Sleeps[i].dur = 30

\* C3: a call of Connect always returns, and until it returns the caller is
\* inside the loop: a running call leaves the loop only by returning.
C3_ConnectTerminates ==
    /\ (Running ~> Returned)
    /\ [][Running => (Running' \/ Returned')]_vars

\* Connect has returned after the longest run of the default configuration:
\* three failed attempts and two sleeps.
C3_Witness ==
    /\ Returned
    /\ maxRetries = 3
    /\ Len(events) = 5

\* C4: the wait before each successive retry is longer than the wait before
\* the previous one (exponential backoff).
C4_ExponentialBackoff ==
    \A i \in 1 .. Len(Sleeps) : \A j \in 1 .. Len(Sleeps) :
        i < j => Sleeps[i].dur < Sleeps[j].dur

\* ------------------------------------------------------------------------
\* Properties of the middleware chain and of the responses package
\* ------------------------------------------------------------------------

Ran(name) == \E i \in 1 .. Len(ran) : ran[i].name = name
\* The context as the named handler found it, and as it left it.
CtxBefore(name) == ran[CHOOSE i \in 1 .. Len(ran) : ran[i].name = name].c
CtxAfter(name) ==
    LET i == CHOOSE j \in 1 .. Len(ran) : ran[j].name = name
    IN  IF i < Len(ran) THEN ran[i + 1].c ELSE gc
LastBody == gc.bodies[Len(gc.bodies)]

\* The Authorization header is "Bearer " followed by a non-empty token that
\* the installed validator accepts.
BearerAccepted ==
    LET h == gc.reqHeaders["Authorization"]
    IN  /\ Len(h) > 7
        /\ SubSeq(h, 1, 7) = <<"B", "e", "a", "r", "e", "r", " ">>
        /\ Validate(engine.validator, SubSeq(h, 8, Len(h))).err.isNil
AcceptedClaims ==
    Validate(engine.validator,
             SubSeq(gc.reqHeaders["Authorization"], 8,
                    Len(gc.reqHeaders["Authorization"]))).claims
SkippedPath ==
    \/ (Len(gc.path) >= 7 /\ SubSeq(gc.path, 1, 7) = <<"/", "h", "e", "a", "l", "t", "h">>)
    \/ (Len(gc.path) >= 8 /\ SubSeq(gc.path, 1, 8) = <<"/", "m", "e", "t", "r", "i", "c", "s">>)

\* C5: behind RequireAuth(validator), on a path that is not skipped, the route
\* handler runs only for "Bearer <non-empty token>" with a token the validator
\* accepts, and then finds every claim of the validator in the context; in
\* every other case the answer is 401, the chain is aborted and the route
\* handler does not run.
C5_RequireAuth ==
    (Ran("auth") /\ engine.validator # "nil" /\ ~SkippedPath) =>
        /\ Ran("handler") => BearerAccepted
        /\ BearerAccepted =>
              /\ ~CtxAfter("auth").aborted
              /\ CtxAfter("auth").status = 0
              /\ \A k \in CtxKeys :
                    AcceptedClaims[k].has => CtxAfter("auth").keys[k] = AcceptedClaims[k]
              /\ Ran("handler") =>
                    \A k \in CtxKeys :
                        AcceptedClaims[k].has =>
                            CtxBefore("handler").keys[k] = AcceptedClaims[k]
        /\ ~BearerAccepted =>
              /\ gc.status = 401
              /\ gc.aborted
              /\ Served
              /\ ~Ran("handler")

\* The route handler ran behind RequireAuth(tokenValidator) on /api and found
\* the validator's user_id and roles in the context.
C5_Witness ==
    /\ Served
    /\ Ran("handler")
    /\ engine.validator = "tokenValidator"
    /\ gc.path = <<"/", "a", "p", "i">>
    /\ CtxBefore("handler").keys["user_id"] = StringVal(<<"1", "2", "3">>)
    /\ CtxBefore("handler").keys["roles"].has
    /\ gc.status = 200

\* C6: after DefaultRequestIDMiddleware ran, the context holds under
\* "request_id" a non-empty string, which is the request's X-Request-ID header
\* if that is not empty and a generated ID otherwise, and the response header
\* X-Request-ID holds the same value; the route handler finds both, so
\* MustGetRequestID equals the response header.
C6_RequestID ==
    (Ran("request_id") /\ engine.generator = "generateRequestID") =>
        LET before == CtxBefore("request_id")
            after == CtxAfter("request_id")
            id == after.keys["request_id"]
        IN  /\ id.has /\ id.typ = "string" /\ id.str # <<>>
            /\ before.reqHeaders["X-Request-ID"] # <<>> =>
                  id.str = before.reqHeaders["X-Request-ID"]
            /\ before.reqHeaders["X-Request-ID"] = <<>> => id.str \in GeneratedIDs
            /\ after.headers["X-Request-ID"] = id.str
            /\ Ran("handler") =>
                  /\ MustGetRequestID(CtxBefore("handler")) = id.str
                  /\ MustGetRequestID(CtxBefore("handler")) =
                        CtxBefore("handler").headers["X-Request-ID"]
                  /\ gc.headers["X-Request-ID"] = id.str

\* The route handler ran behind the default middleware for a request that came
\* with X-Request-ID: exist.
C6_Witness ==
    /\ Ran("request_id") /\ Ran("handler")
    /\ engine.generator = "generateRequestID"
    /\ gc.reqHeaders["X-Request-ID"] = <<"e", "x", "i", "s", "t">>
    /\ gc.headers["X-Request-ID"] = <<"e", "x", "i", "s", "t">>
    /\ MustGetRequestID(CtxBefore("handler")) = <<"e", "x", "i", "s", "t">>

DocumentedStatus ==
    [BadRequest |-> 400, Unauthorized |-> 401, Forbidden |-> 403, NotFound |-> 404,
     MethodNotAllowed |-> 405, Conflict |-> 409, UnprocessableEntity |-> 422,
     TooManyRequests |-> 429, InternalError |-> 500, ExternalServiceError |-> 502,
     ServiceUnavailable |-> 503]
DocumentedCode ==
    [BadRequest |-> "bad_request", Unauthorized |-> "unauthorized",
     Forbidden |-> "forbidden", NotFound |-> "not_found",
     MethodNotAllowed |-> "method_not_allowed", Conflict |-> "conflict",
     UnprocessableEntity |-> "unprocessable_entity",
     TooManyRequests |-> "too_many_requests", InternalError |-> "internal_error",
     ExternalServiceError |-> "external_service_error",
     ServiceUnavailable |-> "service_unavailable"]

IsErrorHelper(fn) == fn \in MessageHelpers \cup GenericHelpers
\* The default request ID middleware is the last one in front of the handler.
DefaultRequestIDInstalled ==
    /\ engine.generator = "generateRequestID"
    /\ Len(engine.chain) >= 2
    /\ engine.chain[Len(engine.chain) - 1] = "request_id"

PanicBehindRecovery == Ran("recovery") /\ panicked # NoPanic

\* The response holds exactly the error object of the recovery middleware.
InternalErrorAnswer(c) ==
    /\ gc.status = 500
    /\ \E i \in 1 .. Len(gc.bodies) :
          /\ gc.bodies[i].code = "internal_error"
          /\ "code" \in gc.bodies[i].fields
          /\ MustGetRequestID(c) # <<>> =>
                /\ "request_id" \in gc.bodies[i].fields
                /\ gc.bodies[i].request_id = MustGetRequestID(c)

\* C11: with DefaultRecoveryMiddleware installed, a panic raised by a
\* downstream handler is caught: the panic does not leave the request, and
\* when the request is over the client has received status 500 and a body
\* with code "internal_error" (and the request ID, when the context holds
\* one); the engine then serves the next request.
C11_PanicRecovered ==
    PanicBehindRecovery =>
        /\ hPc # "crashed"
        /\ Served => InternalErrorAnswer(gc)

\* The parts of C11, one by one. The panic of a handler that has not written
\* anything, caught by the recovery middleware, is answered with status 500 and
\* code "internal_error" (unless it is the panic of a broken connection).
C11_AnswerOfFirstPanic ==
    (Ran("recovered") /\ CtxBefore("recovered").bodies = <<>>
        /\ panicked.value # "broken pipe") =>
        /\ CtxAfter("recovered").status = 500
        /\ CtxAfter("recovered").bodies[1].code = "internal_error"

\* The panic does not leave the request.
C11_NoPropagation == PanicBehindRecovery => hPc # "crashed"

\* After the recovery middleware has answered, no further handler runs.
C11_ChainStopsAfterPanic ==
    \A i \in 1 .. Len(ran) :
        ran[i].name = "recovered" => \A j \in (i + 1) .. Len(ran) : ran[j].name # "handler"

\* ------------------------------------------------------------------------
\* Properties of the configuration and of NewServer
\* ------------------------------------------------------------------------

ServerBuilt == srvCall.fn \in {"NewServer", "GET"} /\ ~srv.server.nil

C12_HealthAndDetailed ==
    (ServerBuilt /\ ~srv.server.options.DisableHealth
        /\ srv.server.options.HealthPath = <<>>) =>
        \A path \in {HealthPath, HealthPath \o DetailedSuffix} :
            ServeGet(srv.server, path).status = 200

\* C16: NewServer called with options that pass ServerOptions.Validate and
\* Config = nil, with none of the configuration variables set, returns a
\* server with a router and does not panic.
C16_NewServerNilConfig ==
    (srvCall.fn = "NewServer"
        /\ ServerOptionsValidate(srvCall.options) = ""
        /\ srvCall.options.Config.nil
        /\ osEnv = EmptyEnv) =>
        /\ srv.panic = ""
        /\ ~srv.server.nil
        /\ ~srv.server.router.nil

\* With a static key or a Keycloak URL in the environment it does.
C16_NewServerWithKeycloak ==
    (srvCall.fn = "NewServer"
        /\ ServerOptionsValidate(srvCall.options) = ""
        /\ srvCall.options.Config.nil
        /\ (osEnv["KEYCLOAK_URL"].set \/ osEnv["KEYCLOAK_PUBLIC_KEY"].set)) =>
        /\ srv.panic = ""
        /\ ~srv.server.nil
        /\ ~srv.server.router.nil

\* C17: LoadWithServiceInfo(name, version) uses the supplied name (version)
\* only when SERVICE_NAME (SERVICE_VERSION) is not set in the environment;
\* a value set in the environment wins over the supplied one.
C17_EnvironmentWins ==
    srvCall.fn = "LoadWithServiceInfo" =>
        /\ srvResp.ServiceName =
              IF osEnv["SERVICE_NAME"].set THEN osEnv["SERVICE_NAME"].val
              ELSE srvCall.serviceName
        /\ srvResp.ServiceVersion =
              IF osEnv["SERVICE_VERSION"].set THEN osEnv["SERVICE_VERSION"].val
              ELSE srvCall.version

\* The same for the environments that do not set a variable to the default
\* of its field.
C17_ExceptDefaults ==
    (srvCall.fn = "LoadWithServiceInfo"
        /\ osEnv["SERVICE_NAME"] # EnvStr("microservice")
        /\ osEnv["SERVICE_VERSION"] # EnvStr("1.0.0")) =>
        /\ srvResp.ServiceName =
              IF osEnv["SERVICE_NAME"].set THEN osEnv["SERVICE_NAME"].val
              ELSE srvCall.serviceName
        /\ srvResp.ServiceVersion =
              IF osEnv["SERVICE_VERSION"].set THEN osEnv["SERVICE_VERSION"].val
              ELSE srvCall.version

\* ------------------------------------------------------------------------
\* Properties of the health middleware
\* ------------------------------------------------------------------------

\* The health middleware has run for the request.
HealthRan == \E i \in 1 .. Len(ran) : ran[i].name = "health"
HealthChecks == ran[CHOOSE i \in 1 .. Len(ran) : ran[i].name = "health"].checks

\* The worst of the reported statuses.
WorstOf(checks) ==
    IF \E name \in DOMAIN checks : checks[name] = "unhealthy" THEN "unhealthy"
    ELSE IF \E name \in DOMAIN checks : checks[name] = "degraded" THEN "degraded"
    ELSE "healthy"

\* C13: the overall status of HealthMiddleware is the worst of the checker
\* results (unhealthy if any checker reports unhealthy, else degraded if any
\* reports degraded, else healthy, and healthy without checkers); the health
\* and the readiness path answer 503 exactly when it is unhealthy and 200
\* otherwise, the liveness path always answers 200.
C13_HealthStatus ==
    HealthRan =>
        /\ gc.path \in {<<"/", "h", "e", "a", "l", "t", "h">>, <<"/", "r", "e", "a", "d", "y">>} =>
              /\ gc.bodies # <<>>
              /\ gc.bodies[1].status = WorstOf(HealthChecks)
              /\ gc.status = 503 <=> WorstOf(HealthChecks) = "unhealthy"
              /\ gc.status = 200 <=> WorstOf(HealthChecks) # "unhealthy"
        /\ gc.path = <<"/", "l", "i", "v", "e">> =>
              /\ gc.status = 200
              /\ gc.bodies # <<>>
              /\ gc.bodies[1].status = "healthy"

\* A readiness probe answered 200 with status degraded while a checker
\* reported degraded and none unhealthy, and a health check answered 503.
C13_DegradedIsReady ==
    /\ HealthRan
    /\ gc.path = <<"/", "r", "e", "a", "d", "y">>
    /\ DOMAIN HealthChecks = CheckerNames
    /\ WorstOf(HealthChecks) = "degraded"
    /\ gc.status = 200
    /\ gc.bodies[1].status = "degraded"

\* ------------------------------------------------------------------------
\* Properties of Start and Stop
\* ------------------------------------------------------------------------

ShuttingDown == httpServer.state \in {"shutdown", "closed"} \/ shutdownLog.calls # <<>>

\* C14: Server.Start does not begin to shut the server down before SIGINT or
\* SIGTERM was received; then it calls http.Server.Shutdown exactly once, with
\* the configured timeout (30 seconds by default), and returns nil when the
\* requests in flight are done in time and the error "server forced to
\* shutdown" when the timeout expires first.
C14_StartShutsDownOnSignal ==
    lifeCall = "Start" =>
        /\ ShuttingDown => shutdownLog.sig \in {"SIGINT", "SIGTERM"}
        /\ Len(shutdownLog.calls) <= 1
        /\ \A i \in 1 .. Len(shutdownLog.calls) :
              /\ shutdownLog.calls[i].timeout = sm.config.Timeout
              /\ sm = setupGracefulShutdown => shutdownLog.calls[i].timeout = 30
        /\ mainPc = "returned" =>
              /\ Len(shutdownLog.calls) = 1
              /\ ~shutdownLog.expired <=> shutdownLog.returned = "nil"
              /\ shutdownLog.expired <=> shutdownLog.returned = "server forced to shutdown"
              /\ shutdownLog.returned = "nil" => httpServer.inflight = 0

\* Start has returned the error after SIGTERM, requests still in flight.
C14_ForcedAfterSigterm ==
    /\ lifeCall = "Start"
    /\ mainPc = "returned"
    /\ shutdownLog.sig = "SIGTERM"
    /\ shutdownLog.returned = "server forced to shutdown"
    /\ httpServer.inflight > 0

\* Start has returned nil after SIGINT.
C14_DrainedAfterSigint ==
    /\ lifeCall = "Start"
    /\ mainPc = "returned"
    /\ shutdownLog.sig = "SIGINT"
    /\ shutdownLog.returned = "nil"

\* C15: once Server.Stop is called the HTTP server is shut down and Stop
\* returns, without an OS signal having to arrive.
C15_StopReturns ==
    (lifeCall = "Stop" /\ proc = "running")
        ~> (lifeCall = "Stop" /\ (mainPc = "returned" \/ proc # "running"))

\* Stop shuts the server down, and returns, only after it has read SIGINT or
\* SIGTERM from its channel.
C15_StopAfterSignal ==
    (lifeCall = "Stop" /\ (ShuttingDown \/ mainPc = "returned")) =>
        shutdownLog.sig \in {"SIGINT", "SIGTERM"}

\* ------------------------------------------------------------------------
\* Properties of the migrations
\* ------------------------------------------------------------------------

\* C18: QuickMigrate, and a Migrator built with DefaultMigrationOptions,
\* never issue a DropTable, whatever the models and however often Migrate is
\* called; tables are dropped only by a migration whose DropTables is true,
\* and every drop of a migration precedes its AutoMigrate.
C18_DropOnlyOnRequest ==
    \A i \in 1 .. Len(dbLog) :
        dbLog[i].op = "DropTable" =>
            /\ dbLog[i].fn # "QuickMigrate"
            /\ dbLog[i].options # [DropTables |-> FALSE, CreateIndexes |-> TRUE,
                                   Verbose |-> TRUE]
            /\ dbLog[i].options.DropTables
            /\ \E j \in (i + 1) .. Len(dbLog) :
                  dbLog[j].op = "AutoMigrate" /\ dbLog[j].call = dbLog[i].call
            /\ \A j \in 1 .. (i - 1) :
                  dbLog[j].call = dbLog[i].call => dbLog[j].op = "DropTable"

\* QuickMigrate and a Migrator with the default options have migrated the
\* same models one after the other, and no table was dropped.
C18_MigratedTwiceNoDrop ==
    /\ migrations = 2
    /\ migrator # NoMigrator
    /\ migrator.options = [DropTables |-> FALSE, CreateIndexes |-> TRUE, Verbose |-> TRUE]
    /\ Len(migrator.models) = 2
    /\ \E i, j \in 1 .. Len(dbLog) :
          /\ dbLog[i].op = "AutoMigrate" /\ dbLog[i].fn = "QuickMigrate"
          /\ dbLog[j].op = "AutoMigrate" /\ dbLog[j].fn = "Migrate"
          /\ dbLog[i].models = dbLog[j].models
    /\ \A i \in 1 .. Len(dbLog) : dbLog[i].op # "DropTable"

\* UnsafeMigrate has dropped two tables and migrated them.
C18_UnsafeDropsFirst ==
    \E i \in 1 .. Len(dbLog) :
        /\ i + 2 <= Len(dbLog)
        /\ dbLog[i].op = "DropTable" /\ dbLog[i].fn = "UnsafeMigrate"
        /\ dbLog[i + 1].op = "DropTable"
        /\ dbLog[i + 2].op = "AutoMigrate"

\* ------------------------------------------------------------------------
\* Properties of HealthChecker.Check
\* ------------------------------------------------------------------------

\* The status Check returned is well formed, and healthy exactly when the
\* ping succeeded and the query returned 1 before the timeout.
CheckedStatus ==
    /\ checkLog.returned.Database = "postgres"
    /\ checkLog.returned.Timestamp # "zero"
    /\ checkLog.returned.Status \in {"healthy", "unhealthy"}
    /\ checkLog.returned.Status = "healthy" <=>
          /\ checkLog.ping = "ok"
          /\ checkLog.chose = "done"
          /\ checkLog.query = [err |-> "", result |-> 1]
    /\ checkLog.returned.Status = "healthy" => checkLog.returned.Error = ""
    /\ checkLog.returned.Status = "unhealthy" => checkLog.returned.Error # ""

\* C19: HealthChecker.Check always returns a HealthStatus, also for a
\* checker of a nil database handle: it never panics. Database is "postgres",
\* Timestamp is not zero, Status is "healthy" with an empty Error exactly when
\* the ping succeeds and SELECT 1 returns 1 before the timeout, and
\* "unhealthy" with an Error that is not empty otherwise.
C19_CheckReturnsStatus ==
    /\ hcPc # "panicked"
    /\ hcPc = "returned" => CheckedStatus

\* The same for the checkers of a handle that is not nil.
C19_WithDatabase ==
    hc.db # NilDB =>
        /\ hcPc # "panicked"
        /\ hcPc = "returned" => CheckedStatus

\* Check returns for the nil handle too when Ping tests its receiver.
C19_ReturnedStatus == hcPc = "returned" => CheckedStatus

\* ------------------------------------------------------------------------
\* Properties of OptionalAuth
\* ------------------------------------------------------------------------

OptionalAuthRan == \E i \in 1 .. Len(ran) : ran[i].name = "optional_auth"
HandlerRuns == Cardinality({i \in 1 .. Len(ran) : ran[i].name = "handler"})

\* The request carries a bearer token and the validator accepts it.
TokenAccepted ==
    /\ engine.validator # "nil"
    /\ BearerTokenExtractor(gc).err.isNil
    /\ Validate(engine.validator, BearerTokenExtractor(gc).token).err.isNil

\* C20: OptionalAuth rejects no request: the handler behind it is executed
\* exactly once for every request, no 401 is written, and the claims of the
\* validator are in the context only when a token was supplied and accepted.
C20_OptionalAuthNeverRejects ==
    OptionalAuthRan =>
        /\ gc.status # 401
        /\ HandlerRuns <= 1
        /\ Served => HandlerRuns = 1 /\ gc.status = 200
        /\ (\E k \in CtxKeys : gc.keys[k].has) => TokenAccepted
        /\ TokenAccepted => gc.keys = Validate(engine.validator,
                                               BearerTokenExtractor(gc).token).claims

\* A request with a token the validator rejects was served by the handler.
C20_RejectedTokenServed ==
    /\ Served
    /\ OptionalAuthRan
    /\ engine.validator = "tokenValidator"
    /\ BearerTokenExtractor(gc).err.isNil
    /\ ~TokenAccepted
    /\ HandlerRuns = 1
    /\ gc.status = 200
    /\ gc.keys = NoKeys

\* A request with an accepted token was served with the claims in its context.
C20_AcceptedTokenServed ==
    /\ Served
    /\ TokenAccepted
    /\ HandlerRuns = 1
    /\ gc.keys["user_id"].has

\* ------------------------------------------------------------------------
\* Properties of the role checks
\* ------------------------------------------------------------------------

RoleCheckRan == \E i \in 1 .. Len(ran) : ran[i].name = "require_role"
RoleCheckEntry == ran[CHOOSE i \in 1 .. Len(ran) : ran[i].name = "require_role"]
HandlerRan == \E i \in 1 .. Len(ran) : ran[i].name = "handler"

\* The context the role check saw holds, under "roles", a []string with one
\* of the required roles.
RoleHeld ==
    LET held == RoleCheckEntry.c.keys["roles"]
        required == RoleCheckEntry.check.roles
    IN  /\ held.has
        /\ held.typ = "[]string"
        /\ \E i \in 1 .. Len(required), j \in 1 .. Len(held.list) :
              held.list[j] = required[i]

\* C21: RequireRole(role) and RequireAnyRole(roles...) let a request reach the
\* handler behind them only if the key "roles" holds a list of strings with
\* the required role (one of the required roles); otherwise the request is
\* aborted with an error response and the handler never runs.
C21_RoleRequired ==
    RoleCheckRan =>
        /\ HandlerRan => RoleHeld
        /\ ~RoleHeld =>
              /\ gc.aborted
              /\ gc.status >= 400
              /\ gc.bodies # <<>>
              /\ gc.bodies[Len(gc.bodies)].code = "insufficient_permissions"
        /\ (RoleHeld /\ Served) => HandlerRan /\ ~gc.aborted

\* RequireAnyRole has stopped a request whose roles are a list of strings
\* without any required role.
C21_RoleAbsentAborted ==
    /\ RoleCheckRan
    /\ RoleCheckEntry.check.fn = "RequireAnyRole"
    /\ Len(RoleCheckEntry.check.roles) = 2
    /\ RoleCheckEntry.c.keys["roles"].typ = "[]string"
    /\ Len(RoleCheckEntry.c.keys["roles"].list) > 0
    /\ ~RoleHeld
    /\ Served
    /\ gc.aborted
    /\ ~HandlerRan

\* RequireRole has stopped a request whose roles are not a []string, and let
\* one with the role pass.
C21_RoleOfOtherTypeAborted ==
    /\ RoleCheckRan
    /\ RoleCheckEntry.check.fn = "RequireRole"
    /\ RoleCheckEntry.c.keys["roles"] = StringVal(RoleCheckEntry.check.roles[1])
    /\ Served
    /\ ~HandlerRan

C21_RoleHeldServed ==
    /\ RoleCheckRan
    /\ RoleCheckEntry.check.fn = "RequireRole"
    /\ RoleHeld
    /\ Served
    /\ HandlerRan

\* ------------------------------------------------------------------------
\* Properties of NewAuthMiddleware
\* ------------------------------------------------------------------------

AuthConfigRan == \E i \in 1 .. Len(ran) : ran[i].name = "auth_config"
AuthConfigEntry == ran[CHOOSE i \in 1 .. Len(ran) : ran[i].name = "auth_config"]

\* The path of the request begins with one of the configured skip paths.
PathSkipped ==
    LET skipPaths == AuthConfigEntry.config.SkipPaths
    IN  \E i \in 1 .. Len(skipPaths) :
            /\ Len(skipPaths[i]) <= Len(gc.path)
            /\ SubSeq(gc.path, 1, Len(skipPaths[i])) = skipPaths[i]

\* The extraction of the token fails, or the validator rejects the token.
AuthenticationFails ==
    \/ ~BearerTokenExtractor(gc).err.isNil
    \/ /\ AuthConfigEntry.config.TokenValidator # "nil"
       /\ ~Validate(AuthConfigEntry.config.TokenValidator,
                    BearerTokenExtractor(gc).token).err.isNil

\* C22: for every AuthConfig given to NewAuthMiddleware, also one whose
\* ErrorHandler writes a response without calling Abort, a request whose
\* token extraction or validation fails never reaches the handlers behind
\* the middleware.
C22_FailedAuthStopsChain ==
    (AuthConfigRan /\ ~PathSkipped /\ AuthenticationFails) => ~HandlerRan

\* The same for the configurations whose ErrorHandler is
\* DefaultAuthErrorHandler; and every failed authentication is answered 401.
C22_DefaultHandlerStopsChain ==
    (AuthConfigRan /\ ~PathSkipped /\ AuthenticationFails) =>
        /\ gc.status = 401
        /\ AuthConfigEntry.config.ErrorHandler = "DefaultAuthErrorHandler" =>
              ~HandlerRan /\ gc.aborted

\* C23: NewAuthMiddleware bypasses authentication exactly for the paths that
\* begin with a configured skip path: such a request reaches the handler
\* whatever its Authorization header, with no claims stored; a request on any
\* other path is authenticated.
C23_SkipByPrefix ==
    AuthConfigRan =>
        /\ PathSkipped =>
              /\ gc.keys = NoKeys
              /\ ~gc.aborted
              /\ gc.status # 401
              /\ Served => HandlerRan /\ gc.status = 200
        /\ (~PathSkipped /\ AuthenticationFails) => gc.status = 401
        /\ (~PathSkipped /\ ~AuthenticationFails
               /\ AuthConfigEntry.config.TokenValidator # "nil") =>
              gc.keys = Validate(AuthConfigEntry.config.TokenValidator,
                                 BearerTokenExtractor(gc).token).claims

\* With DefaultAuthConfig a request on /healthz without a token was
\* served by the handler.
C23_HealthzBypassed ==
    /\ AuthConfigRan
    /\ AuthConfigEntry.config = DefaultAuthConfig(engine.validator)
    /\ gc.path = <<"/", "h", "e", "a", "l", "t", "h", "z">>
    /\ gc.reqHeaders["Authorization"] = <<>>
    /\ Served
    /\ HandlerRan
    /\ gc.status = 200

\* With the same configuration a request on /api without a token was stopped.
C23_ApiNotBypassed ==
    /\ AuthConfigRan
    /\ AuthConfigEntry.config = DefaultAuthConfig(engine.validator)
    /\ gc.path = <<"/", "a", "p", "i">>
    /\ gc.reqHeaders["Authorization"] = <<>>
    /\ Served
    /\ ~HandlerRan
    /\ gc.status = 401

\* ------------------------------------------------------------------------
\* Properties of NewRequestIDMiddleware
\* ------------------------------------------------------------------------

RequestIDConfigEntry ==
    ran[CHOOSE i \in 1 .. Len(ran) : ran[i].name = "request_id_config"]

\* The ID the middleware put on the response header
ResponseHeaderID == gc.headers[RequestIDConfigEntry.config.HeaderName]

\* C24: for every RequestIDConfig, a custom HeaderName and ContextKey
\* included, GetRequestID and MustGetRequestID called in the handler behind
\* NewRequestIDMiddleware(config) return the ID that the middleware put on the
\* response header.
C24_GetRequestIDReturnsHeaderID ==
    (Ran("request_id_config") /\ Ran("handler")) =>
        /\ GetRequestID(CtxBefore("handler")) =
              [id |-> ResponseHeaderID, exists |-> TRUE]
        /\ MustGetRequestID(CtxBefore("handler")) = ResponseHeaderID

\* The same for the configurations whose ContextKey is RequestIDKey, whatever
\* their HeaderName; with another ContextKey GetRequestID finds nothing.
C24_DefaultKeyReturnsHeaderID ==
    (Ran("request_id_config") /\ Ran("handler")) =>
        IF RequestIDConfigEntry.config.ContextKey = RequestIDKey
          THEN /\ GetRequestID(CtxBefore("handler")) =
                     [id |-> ResponseHeaderID, exists |-> TRUE]
               /\ MustGetRequestID(CtxBefore("handler")) = ResponseHeaderID
          ELSE /\ GetRequestID(CtxBefore("handler")) = [id |-> <<>>, exists |-> FALSE]
               /\ MustGetRequestID(CtxBefore("handler")) = <<>>
               /\ CtxBefore("handler").keys[RequestIDConfigEntry.config.ContextKey] =
                     StringVal(ResponseHeaderID)

====
